---- MODULE Spec2Model ----
(***************************************************************************)
(* Model of the MCP client and agent tool-call loop of ClaudeCore.         *)
(*                                                                         *)
(*   SpecStdio  one stdio transport instance (testStdioConnection,         *)
(*              discoverStdioTools or executeStdioTool) against an         *)
(*              arbitrary subprocess                                       *)
(*   SpecTools  the stored tool set: the discover-tools route and          *)
(*              syncTools, two requests interleaving at their awaits       *)
(*   SpecAgent  runChat, the tool-call loop and cancelRun                  *)
(*   SpecRuns   two runChat invocations side by side                       *)
(*   SpecCall   executeTool and discoverTools: the server lookup and the   *)
(*              HTTP transport's two requests                              *)
(*   SpecNames  isHighRiskTool and the full tool name, built and resolved  *)
(*   SpecDispatch  the tools offered to the model and the server a         *)
(*              requested tool is executed on                              *)
(*                                                                         *)
(* A write to the subprocess's stdin succeeds or fails with EPIPE; the     *)
(* failure is an uncaught exception, which ends the server process.        *)
(***************************************************************************)
EXTENDS Naturals, Sequences, FiniteSets

VARIABLES
    \* ---- one stdio transport instance (mcp.service.ts) ----
    op,          \* "none" | "test" | "discover" | "exec": which method runs
    procState,   \* "null" | "spawnerr" | "running" | "exited" | "closed"
    exitCode,    \* "none" | "zero" | "nonzero" | "signal" (code === null)
    killed,      \* proc.killed
    killCalls,   \* number of proc.kill() calls made
    timer,       \* "unset" | "armed" | "cleared" | "fired"
    result,      \* the promise: [settled, success, value, via]
    writes,      \* requests written to proc.stdin, in order
    messageId,   \* discoverStdioTools' messageId
    buffer,      \* the handler's line buffer (discover, exec)
    output,      \* testStdioConnection's accumulated stdout
    errorOutput, \* testStdioConnection's accumulated stderr
    pipe,        \* stdout bytes the process wrote, not yet delivered
    emitted,     \* number of stdout writes the process made
    sent,        \* history: every character the process wrote to stdout
    replied,     \* history: the process wrote a JSON object to stdout
    seenInit,    \* history: a line with id 1 and a result was parsed
    uncaught,    \* proc.stdin emitted 'error' (write EPIPE): no listener is
                 \* registered, the exception ends the server process
    \* ---- the stored tools (prisma.mCPTool) and the requests on them ----
    store,       \* (workspace, server) -> stored rows, a bag of tool names
    req,         \* request slot -> the request it is serving
    calls,       \* number of requests started
    \* ---- runChat invocations and the run registry (AgentService) ----
    run,         \* slot -> the runChat invocation in it
    activeRuns,  \* keys of the activeRuns map (each maps to its slot's
                 \* AbortController)
    lastCancel,  \* the last cancelRun call: its argument and return value
    nCancels,    \* number of cancelRun calls made
    slots,       \* the slots in which runChat is invoked
    blockBound,  \* the longest model reply, in content blocks
    roundBound,  \* the model replies of a run that may request tools
    cancelBound, \* the cancelRun calls made in one behaviour
    replyKinds,  \* the content blocks a model reply is made of
    \* ---- one executeTool call (MCPService.executeTool) ----
    tc,          \* the call: its position, arguments, what it has read
    fetches,     \* the HTTP requests issued, in order
    spawns,      \* number of subprocesses spawned
    \* ---- tool names ----
    dp,          \* one tool request of the loop: offered tools, dispatch
    rk,          \* a tool classified by isHighRiskTool
    fn           \* a full name built and resolved

stdioVars == <<op, procState, exitCode, killed, killCalls, timer, result,
               writes, messageId, buffer, output, errorOutput, pipe,
               emitted, sent, replied, seenInit, uncaught>>

toolVars == <<store, req, calls>>

agentVars ==
    <<run, activeRuns, lastCancel, nCancels, slots, blockBound, roundBound,
      cancelBound, replyKinds>>

callVars == <<tc, fetches, spawns>>

nameVars == <<rk, fn>>

dispatchVars == <<dp>>

vars == <<stdioVars, toolVars, agentVars, callVars, nameVars, dispatchVars>>

\* what the actions of one part leave alone
notStdio == <<toolVars, agentVars, callVars, nameVars, dispatchVars>>
notTools == <<stdioVars, agentVars, callVars, nameVars, dispatchVars>>
notAgent == <<stdioVars, toolVars, callVars, nameVars, dispatchVars>>
notCall == <<stdioVars, toolVars, agentVars, nameVars, dispatchVars>>
notNames == <<stdioVars, toolVars, agentVars, callVars, dispatchVars>>
notDispatch == <<stdioVars, toolVars, agentVars, callVars, nameVars>>

-----------------------------------------------------------------------------
(* Bounds *)

\* stdout writes one subprocess makes
MaxUnits == 3

\* tools in one discovery result
MaxTools == 2

\* discover-tools requests and syncTools calls started in one behaviour
MaxCalls == 2

\* content blocks in one model reply, for one runChat invocation
MaxBlocks == 2

\* content blocks in one model reply, in the check that a run ends
MaxBlocksFair == 1

\* content blocks in one model reply, for two concurrent invocations
MaxBlocksPair == 1

\* model replies of one run that request tools, for two concurrent
\* invocations
MaxRoundsPair == 1

\* cancelRun calls in one behaviour, for one runChat invocation
MaxCancels == 2

\* cancelRun calls in one behaviour, in the check that a run ends
MaxCancelsFair == 1

\* cancelRun calls in one behaviour, for two concurrent invocations
MaxCancelsPair == 1

\* words of the mock agent's text, each streamed as one chunk
MockWords == 2

\* lines in the body of one text/event-stream response
MaxSseLines == 2

\* pieces a server name or a tool name is put together from
MaxPieces == 3

-----------------------------------------------------------------------------
(* Characters of the subprocess's stdout.  A JSON-RPC envelope is the two  *)
(* characters <<H, b>>: H stands for the opening  {"  and the body b for   *)
(* the rest of the object,  jsonrpc":"2.0","id":...} .                     *)

NL == "\n"
SP == " "
X  == "x"
H  == "{\""

\* A tool list whose tool name holds a two-byte UTF-8 character is the
\* three byte strings <<H, U1, U2>>: U1 is the object up to and including
\* the character's first byte, U2 its second byte and the rest of the
\* object.  U1R and U2R are what Buffer.toString() makes of them when the
\* two bytes arrive in different data events: each byte on its own is
\* decoded to U+FFFD.
U1  == "u1"
U2  == "u2"
U1R == "u1R"
U2R == "u2R"

\* The envelopes a subprocess may send, by body character.
\* result: "absent" | "falsy" (null, 0, false, "") | "obj" (truthy, no
\* tools member) | "tools" (truthy, with a tools array of tool objects) |
\* "badtools" (truthy, with a truthy tools member that cannot be mapped:
\* not an array, or an array holding null) | "toolsR" (a tools array in
\* which a tool name holds U+FFFD in place of a character)
MsgTable ==
    [ b1r |-> [ok |-> TRUE, id |-> 1, result |-> "obj",    error |-> "absent"],
      b1e |-> [ok |-> TRUE, id |-> 1, result |-> "absent", error |-> "err"],
      b2t |-> [ok |-> TRUE, id |-> 2, result |-> "tools",  error |-> "absent"],
      b2m |-> [ok |-> TRUE, id |-> 2, result |-> "badtools", error |-> "absent"],
      b2r |-> [ok |-> TRUE, id |-> 2, result |-> "obj",    error |-> "absent"],
      b2n |-> [ok |-> TRUE, id |-> 2, result |-> "falsy",  error |-> "absent"],
      b2e |-> [ok |-> TRUE, id |-> 2, result |-> "absent", error |-> "err"] ]

Bodies == DOMAIN MsgTable

\* The envelopes an operation's handler tells apart: testStdioConnection
\* never parses, discoverStdioTools reads id 1 with a result and id 2 with
\* result.tools, executeStdioTool id 1 with a result and id 2 by result
\* and error.
BodiesFor(o) ==
    IF o = "test" THEN {"b1r"}
    ELSE IF o = "discover" THEN {"b1r", "b1e", "b2t", "b2m", "b2r"}
    ELSE {"b1r", "b1e", "b2r", "b2n", "b2e"}

\* What one stdout write of the subprocess may carry: a whitespace line
\* end, noise, an envelope with its newline, an envelope without one.
Units(o) ==
    {<<SP, NL>>, <<X>>}
        \cup {<<H, b, NL>> : b \in BodiesFor(o)}
        \cup {<<H, b>> : b \in BodiesFor(o)}
        \cup (IF o = "discover" THEN {<<H, U1, U2, NL>>} ELSE {})

\* JSON.parse throws: the catch block ignores the line
NoMsg == [ok |-> FALSE, id |-> 0, result |-> "absent", error |-> "absent"]

-----------------------------------------------------------------------------
(* String helpers, as the handlers compute them *)

RECURSIVE SplitFrom(_, _, _)
SplitFrom(s, acc, cur) ==
    IF s = <<>> THEN Append(acc, cur)
    ELSE IF Head(s) = NL THEN SplitFrom(Tail(s), Append(acc, cur), <<>>)
    ELSE SplitFrom(Tail(s), acc, Append(cur, Head(s)))

\* buffer.split('\n')
Split(s) == SplitFrom(s, <<>>, <<>>)

\* all but the last element: what is left of lines after lines.pop()
Front(s) == SubSeq(s, 1, Len(s) - 1)
Last(s) == s[Len(s)]

RECURSIVE TrimLeft(_)
TrimLeft(s) == IF s # <<>> /\ Head(s) = SP THEN TrimLeft(Tail(s)) ELSE s

RECURSIVE TrimRight(_)
TrimRight(s) == IF s # <<>> /\ Last(s) = SP THEN TrimRight(Front(s)) ELSE s

\* line.trim()
Trim(s) == TrimRight(TrimLeft(s))

\* JSON.parse(line): surrounding whitespace is allowed; anything that is
\* not one JSON object has no effect in the handlers (the parse throws, or
\* the value has no id)
JsonParse(line) ==
    LET t == Trim(line)
    IN  IF Len(t) = 2 /\ t[1] = H /\ t[2] \in Bodies THEN MsgTable[t[2]]
        ELSE IF t = <<H, U1, U2>>
        THEN [ok |-> TRUE, id |-> 2, result |-> "tools", error |-> "absent"]
        ELSE IF t = <<H, U1R, U2R>>
        THEN [ok |-> TRUE, id |-> 2, result |-> "toolsR", error |-> "absent"]
        ELSE NoMsg

\* data.toString(): the bytes of one data event are decoded as UTF-8 on
\* their own; a first byte at the end of the event and a second byte at
\* its start are each replaced by U+FFFD
ToString(data) ==
    [i \in 1..Len(data) |->
        IF data[i] = U1 /\ i = Len(data) THEN U1R
        ELSE IF data[i] = U2 /\ i = 1 THEN U2R
        ELSE data[i]]

\* output.includes('{"')
IncludesBrace(s) == \E i \in 1..Len(s) : s[i] = H

\* output.includes('"jsonrpc"')
IncludesJsonrpc(s) == \E i \in 1..(Len(s) - 1) : s[i] = H /\ s[i+1] \in Bodies

\* JavaScript truthiness of msg.result
Truthy(r) == r \in {"obj", "tools", "badtools", "toolsR"}

-----------------------------------------------------------------------------
(* The promise and the handlers' shared steps.  h is the part of the state *)
(* a handler may change.                                                   *)

Pending == [settled |-> FALSE, success |-> FALSE, value |-> "none", via |-> "none"]

Outcome(success, value, via) ==
    [settled |-> TRUE, success |-> success, value |-> value, via |-> via]

HState == [writes |-> writes, messageId |-> messageId, timer |-> timer,
           killCalls |-> killCalls, killed |-> killed, result |-> result,
           seenInit |-> seenInit]

\* mutant: a later resolution replaces an earlier one
Resolve_LastWins(h, v) == [h EXCEPT !.result = v]

\* resolve(v): only the first resolution of a promise takes effect
Resolve(h, v) == IF h.result.settled THEN h ELSE [h EXCEPT !.result = v]

\* clearTimeout(timeout)
ClearTimeout(h) == IF h.timer = "armed" THEN [h EXCEPT !.timer = "cleared"] ELSE h

\* proc.kill(): the signal is sent, and proc.killed set, only while the
\* process has not exited
Kill(h) ==
    [h EXCEPT !.killCalls = @ + 1,
              !.killed = @ \/ procState = "running"]

\* if (proc && !proc.killed) proc.kill()
KillIfNotKilled(h) == IF procState # "null" /\ ~h.killed THEN Kill(h) ELSE h

\* proc.stdin.write(JSON.stringify({jsonrpc, id, method, params}) + '\n')
Write(h, method, id) ==
    [h EXCEPT !.writes = Append(@, [method |-> method, id |-> id])]

\* mutant: the result of the id-1 line is not looked at
IsInitializeResponse_NoResult(msg) == msg.id = 1

\* msg.id === 1 && msg.result
IsInitializeResponse(msg) == msg.id = 1 /\ Truthy(msg.result)

\* msg.id === 2 && msg.result?.tools
IsToolsResponse(msg) ==
    msg.id = 2 /\ msg.result \in {"tools", "badtools", "toolsR"}

\* observer: the line is a response with id 1 and a result
Observe(h, msg) ==
    [h EXCEPT !.seenInit = @ \/ (msg.ok /\ msg.id = 1 /\ Truthy(msg.result))]

-----------------------------------------------------------------------------
(* discoverStdioTools' stdout handler, one line *)

DiscoverLine(h, line) ==
    IF Trim(line) = <<>> THEN h
    ELSE LET msg == JsonParse(line)
             h1 == Observe(h, msg)
         IN  IF ~msg.ok THEN h1
             ELSE IF IsInitializeResponse(msg)
                  THEN Write([h1 EXCEPT !.messageId = @ + 1],
                             "tools/list", h1.messageId + 1)
             ELSE IF IsToolsResponse(msg)
                  THEN LET h2 == Kill(ClearTimeout(h1))
                       IN  IF msg.result \in {"tools", "toolsR"}
                           THEN Resolve(h2, Outcome(TRUE, msg.result, "data"))
                           ELSE h2  \* tools.map(...) throws into the catch
             ELSE h1

(* executeStdioTool's stdout handler, one line *)

ExecLine(h, line) ==
    IF Trim(line) = <<>> THEN h
    ELSE LET msg == JsonParse(line)
             h1 == Observe(h, msg)
         IN  IF ~msg.ok THEN h1
             ELSE IF IsInitializeResponse(msg)
                  THEN Write(h1, "tools/call", 2)
             ELSE IF msg.id = 2
                  THEN LET h2 == Kill(ClearTimeout(h1))
                       IN  IF Truthy(msg.result)
                           THEN Resolve(h2, Outcome(TRUE, "result", "data"))
                           ELSE IF msg.error # "absent"
                           THEN Resolve(h2, Outcome(FALSE, "rpcerror", "data"))
                           ELSE h2
             ELSE h1

RECURSIVE DiscoverLines(_, _)
DiscoverLines(h, lines) ==
    IF lines = <<>> THEN h
    ELSE DiscoverLines(DiscoverLine(h, Head(lines)), Tail(lines))

RECURSIVE ExecLines(_, _)
ExecLines(h, lines) ==
    IF lines = <<>> THEN h
    ELSE ExecLines(ExecLine(h, Head(lines)), Tail(lines))

\* testStdioConnection's stdout handler, after output += data
TestData(h, out) ==
    IF IncludesJsonrpc(out) \/ IncludesBrace(out)
    THEN Resolve(Kill(ClearTimeout(h)), Outcome(TRUE, "none", "data"))
    ELSE h

\* testStdioConnection's close handler
TestClose(h, code) ==
    IF code = "zero" \/ IncludesJsonrpc(output)
    THEN Resolve(ClearTimeout(h), Outcome(TRUE, "none", "close"))
    ELSE Resolve(ClearTimeout(h),
                 Outcome(FALSE, IF errorOutput # <<>> THEN "stderr" ELSE "exitcode",
                         "close"))

\* the setTimeout callbacks
TestTimeout(h) ==
    Resolve(KillIfNotKilled([h EXCEPT !.timer = "fired"]),
            Outcome(FALSE, "timeout", "timer"))

DiscoverTimeout(h) ==
    Resolve(KillIfNotKilled([h EXCEPT !.timer = "fired"]),
            Outcome(TRUE, "empty", "timer"))

ExecTimeout(h) ==
    Resolve(KillIfNotKilled([h EXCEPT !.timer = "fired"]),
            Outcome(FALSE, "timeout", "timer"))

\* the state a handler leaves
Commit(h) ==
    /\ writes' = h.writes
    /\ messageId' = h.messageId
    /\ timer' = h.timer
    /\ killCalls' = h.killCalls
    /\ killed' = h.killed
    /\ result' = h.result
    /\ seenInit' = h.seenInit

-----------------------------------------------------------------------------
(* Actions of one stdio transport instance *)

\* the server process runs: no uncaught exception has ended it
ServerRuns ==
    /\ ~uncaught
    /\ UNCHANGED uncaught

InitStdio ==
    /\ op = "none"
    /\ procState = "null"
    /\ exitCode = "none"
    /\ killed = FALSE
    /\ killCalls = 0
    /\ timer = "unset"
    /\ result = Pending
    /\ writes = <<>>
    /\ messageId = 1
    /\ buffer = <<>>
    /\ output = <<>>
    /\ errorOutput = <<>>
    /\ pipe = <<>>
    /\ emitted = 0
    /\ sent = <<>>
    /\ replied = FALSE
    /\ seenInit = FALSE
    /\ uncaught = FALSE

\* the value an operation's catch block resolves with
CatchOutcome(o) ==
    IF o = "discover" THEN Outcome(TRUE, "empty", "catch")
    ELSE Outcome(FALSE, "exception", "catch")

\* The promise executor of testStdioConnection / discoverStdioTools /
\* executeStdioTool, which runs synchronously: arm the timer, spawn,
\* register the handlers, write the initialize request.  spawn() throws, or
\* returns a process that fails to start (an 'error' event follows), or
\* returns a running process.
Start(o, spawned) ==
    /\ UNCHANGED notStdio
    /\ ServerRuns
    /\ op = "none"
    /\ op' = o
    /\ IF spawned = "throws"
       THEN /\ procState' = "null"
            /\ timer' = "cleared"
            /\ result' = CatchOutcome(o)
            /\ writes' = <<>>
       ELSE /\ procState' = spawned
            /\ timer' = "armed"
            /\ result' = Pending
            /\ writes' = <<[method |-> "initialize", id |-> 1]>>
    /\ UNCHANGED <<exitCode, killed, killCalls, messageId, buffer, output,
                   errorOutput, pipe, emitted, sent, replied, seenInit>>

TestStdioConnection == \E s \in {"throws", "spawnerr", "running"} : Start("test", s)
DiscoverStdioTools == \E s \in {"throws", "spawnerr", "running"} : Start("discover", s)
ExecuteStdioTool == \E s \in {"throws", "spawnerr", "running"} : Start("exec", s)

\* the subprocess writes to its stdout
ProcEmit ==
    /\ UNCHANGED notStdio
    /\ ServerRuns
    /\ procState = "running"
    /\ emitted < MaxUnits
    /\ \E u \in Units(op) :
        /\ pipe' = pipe \o u
        /\ replied' = (replied \/ u[1] = H)
        /\ sent' = sent \o u
    /\ emitted' = emitted + 1
    /\ UNCHANGED <<op, procState, exitCode, killed, killCalls, timer, result,
                   writes, messageId, buffer, output, errorOutput, seenInit>>

\* proc.stderr.on('data') (only testStdioConnection listens): what the
\* subprocess wrote to its stderr arrives, also after it has exited
StderrData ==
    /\ UNCHANGED notStdio
    /\ ServerRuns
    /\ op = "test"
    /\ procState \in {"running", "exited"}
    /\ errorOutput = <<>>
    /\ errorOutput' = <<X>>
    /\ UNCHANGED <<op, procState, exitCode, killed, killCalls, timer, result,
                   writes, messageId, buffer, output, pipe, emitted, sent, replied,
                   seenInit>>

\* the subprocess terminates, by itself or by a signal
ProcExit ==
    /\ UNCHANGED notStdio
    /\ ServerRuns
    /\ procState = "running"
    /\ procState' = "exited"
    /\ UNCHANGED <<op, exitCode, killed, killCalls, timer, result, writes, messageId,
                   buffer, output, errorOutput, pipe, emitted, sent, replied, seenInit>>

\* proc.stdout.on('data'): the first k undelivered characters arrive
StdoutData ==
    /\ UNCHANGED notStdio
    /\ ServerRuns
    /\ procState \in {"running", "exited"}
    /\ pipe # <<>>
    /\ \E k \in 1..Len(pipe) :
        LET data == ToString(SubSeq(pipe, 1, k))
        IN  /\ pipe' = SubSeq(pipe, k + 1, Len(pipe))
            /\ IF op = "test"
               THEN /\ output' = output \o data
                    /\ buffer' = buffer
                    /\ Commit(TestData(HState, output \o data))
               ELSE LET lines == Split(buffer \o data)
                    IN  /\ buffer' = Last(lines)
                        /\ output' = output
                        /\ Commit(IF op = "discover"
                                  THEN DiscoverLines(HState, Front(lines))
                                  ELSE ExecLines(HState, Front(lines)))
    /\ UNCHANGED <<op, procState, exitCode, errorOutput, emitted, sent, replied>>

\* A request written to proc.stdin does not reach the subprocess, which
\* has closed its standard input or has exited without reading it: the
\* write fails with EPIPE and proc.stdin emits 'error'.  No method
\* registers a listener on proc.stdin, so the event is thrown as an
\* uncaught exception and the server process ends: no handler runs after
\* it and a promise still pending is never settled.  The stream fails
\* before the subprocess's 'close' event.
StdinError ==
    /\ UNCHANGED notStdio
    /\ ~uncaught
    /\ procState \in {"running", "exited"}
    /\ writes # <<>>
    /\ uncaught' = TRUE
    /\ UNCHANGED <<op, procState, exitCode, killed, killCalls, timer, result,
                   writes, messageId, buffer, output, errorOutput, pipe,
                   emitted, sent, replied, seenInit>>

\* proc.on('error'): the process could not be started.  The event is
\* emitted on the next tick, before any timer can fire.
ProcError ==
    /\ UNCHANGED notStdio
    /\ ServerRuns
    /\ procState = "spawnerr"
    /\ procState' = "exited"
    /\ exitCode' = "nonzero"
    /\ Commit(Resolve(ClearTimeout(HState),
                      IF op = "discover" THEN Outcome(TRUE, "empty", "error")
                      ELSE Outcome(FALSE, "spawn", "error")))
    /\ UNCHANGED <<op, buffer, output, errorOutput, pipe, emitted, sent, replied>>

\* proc.on('close', code): the process has ended and its stdio is drained;
\* code is its exit code, null when a signal ended it.  A process that
\* could not be started closes with a negative code.
\* executeStdioTool registers no close handler.
ProcClose ==
    /\ UNCHANGED notStdio
    /\ ServerRuns
    /\ procState = "exited"
    /\ pipe = <<>>
    /\ procState' = "closed"
    /\ \E c \in (IF exitCode = "none" THEN {"zero", "nonzero", "signal"}
                 ELSE {exitCode}) :
        /\ exitCode' = c
        /\ Commit(IF op = "test" THEN TestClose(HState, c)
                  ELSE IF op = "discover"
                  THEN Resolve(ClearTimeout(HState),
                               Outcome(TRUE, "empty", "close"))
                  ELSE HState)
    /\ UNCHANGED <<op, buffer, output, errorOutput, pipe, emitted, sent,
                   replied>>

\* the setTimeout callback runs
TimerFire ==
    /\ UNCHANGED notStdio
    /\ ServerRuns
    /\ timer = "armed"
    /\ procState # "spawnerr"
    /\ Commit(IF op = "test" THEN TestTimeout(HState)
              ELSE IF op = "discover" THEN DiscoverTimeout(HState)
              ELSE ExecTimeout(HState))
    /\ UNCHANGED <<op, procState, exitCode, buffer, output, errorOutput, pipe,
                   emitted, sent, replied>>

NextStdio ==
    \/ TestStdioConnection
    \/ DiscoverStdioTools
    \/ ExecuteStdioTool
    \/ ProcEmit
    \/ StderrData
    \/ ProcExit
    \/ StdoutData
    \/ StdinError
    \/ ProcError
    \/ ProcClose
    \/ TimerFire

-----------------------------------------------------------------------------
(* The stored tool set: syncTools and the discover-tools route.  Two       *)
(* request slots run concurrently and interleave at their awaits.          *)

Slots == {1, 2}
ToolNames == {"A", "B", "C"}

\* (workspaceId, serverName): two servers of one workspace and a server of
\* the same name in another workspace
Keys == {<<"w1", "s1">>, <<"w1", "s2">>, <<"w2", "s1">>}

\* A discovery result: a list of tools with distinct names.
ToolLists ==
    {t \in UNION {[1..n -> ToolNames] : n \in 0..MaxTools} :
        \A i, j \in 1..Len(t) : i # j => t[i] # t[j]}

NoRows == [n \in ToolNames |-> 0]

\* the rows a list of tools stands for, one per element
BagOf(t) == [n \in ToolNames |-> Cardinality({i \in 1..Len(t) : t[i] = n})]

Idle == [pc |-> "idle", kind |-> "none", key |-> <<"w1", "s1">>, tools |-> <<>>,
         i |-> 0, synced |-> FALSE, overlap |-> FALSE, stale |-> FALSE]

\* request r is inside syncTools
InSync(r) == req[r].pc \in {"delete", "create"}

\* another request is inside syncTools for the same (workspace, server)
OtherInSync(r, k) == \E q \in Slots \ {r} : InSync(q) /\ req[q].key = k

\* history: r enters syncTools; the requests for the same key that are
\* under way (discovering, or inside syncTools) overlap it
MarkOverlap(rq, r) ==
    [q \in Slots |->
        IF q # r /\ rq[q].pc \in {"discover", "delete", "create"}
             /\ rq[q].key = rq[r].key
        THEN [rq[q] EXCEPT !.overlap = TRUE]
        ELSE rq[q]]

\* mutant: the stale rows are kept (an incremental merge)
DeleteMany_None(st, k) == st

\* prisma.mCPTool.deleteMany({ where: { workspaceId, serverName } })
DeleteMany(st, k) == [st EXCEPT ![k] = NoRows]

\* prisma.mCPTool.create({ data: { id: uuidv4(), workspaceId, serverName,
\* toolName, ... } }): one new row
Create(st, k, name) == [st EXCEPT ![k][name] = @ + 1]

InitTools ==
    /\ store = [k \in Keys |-> NoRows]
    /\ req = [r \in Slots |-> Idle]
    /\ calls = 0

\* syncTools is entered: its deleteMany is awaited next
EnterSync(r, kind, k, t) ==
    LET rq == [req EXCEPT ![r] =
                 [pc |-> "delete", kind |-> kind, key |-> k, tools |-> t,
                  i |-> 1, synced |-> TRUE,
                  overlap |-> req[r].overlap \/ OtherInSync(r, k),
                  stale |-> \E n \in ToolNames :
                              store[k][n] > 0 /\ BagOf(t)[n] = 0]]
    IN  req' = MarkOverlap(rq, r)

\* POST /servers/:id/discover-tools arrives: mcpService.getById is awaited
RouteStart(r) ==
    /\ UNCHANGED notTools
    /\ req[r].pc = "idle"
    /\ calls < MaxCalls
    /\ req' = [req EXCEPT ![r] = [Idle EXCEPT !.pc = "getById",
                                              !.kind = "route"]]
    /\ calls' = calls + 1
    /\ UNCHANGED store

\* getById returns the server's configuration, and discoverTools is
\* awaited; or it throws (no such server, or the database call rejects) and
\* the route's catch block calls next(error)
RouteGetById(r) ==
    /\ UNCHANGED notTools
    /\ req[r].pc = "getById"
    /\ \/ req' = [req EXCEPT ![r].pc = "error"]
       \/ \E k \in Keys :
            req' = [req EXCEPT ![r].pc = "discover", ![r].key = k,
                               ![r].overlap = OtherInSync(r, k)]
    /\ UNCHANGED <<store, calls>>

\* discoverTools returns: an empty list is answered at once, without
\* syncTools; any other list is handed to syncTools
RouteDiscovered(r) ==
    /\ UNCHANGED notTools
    /\ req[r].pc = "discover"
    /\ \E t \in ToolLists :
        IF Len(t) = 0
        THEN req' = [req EXCEPT ![r].pc = "done", ![r].tools = t]
        ELSE EnterSync(r, "route", req[r].key, t)
    /\ UNCHANGED <<store, calls>>

\* mcpService.syncTools(workspaceId, serverName, tools) is called
SyncToolsCall(r) ==
    /\ UNCHANGED notTools
    /\ req[r].pc = "idle"
    /\ calls < MaxCalls
    /\ \E k \in Keys, t \in ToolLists : EnterSync(r, "sync", k, t)
    /\ calls' = calls + 1
    /\ UNCHANGED store

\* syncTools: await deleteMany returns, or rejects: syncTools has no
\* handler, the call rejects (in the route: next(error)) and the rows stay
\* as they are
SyncDelete(r) ==
    /\ UNCHANGED notTools
    /\ req[r].pc = "delete"
    /\ \/ /\ store' = DeleteMany(store, req[r].key)
          /\ req' = [req EXCEPT ![r].pc =
                        IF Len(req[r].tools) = 0 THEN "done" ELSE "create"]
       \/ /\ store' = store
          /\ req' = [req EXCEPT ![r].pc = "error"]
    /\ UNCHANGED calls

\* syncTools: one turn of the for loop, await create returns, or rejects
\* and the call rejects with the rows created so far
SyncCreate(r) ==
    /\ UNCHANGED notTools
    /\ req[r].pc = "create"
    /\ \/ /\ store' = Create(store, req[r].key, req[r].tools[req[r].i])
          /\ req' = [req EXCEPT ![r].i = @ + 1,
                                ![r].pc = IF req[r].i = Len(req[r].tools)
                                          THEN "done" ELSE "create"]
       \/ /\ store' = store
          /\ req' = [req EXCEPT ![r].pc = "error"]
    /\ UNCHANGED calls

\* the response is sent (res.json, or next(error)) or the call's promise
\* is consumed
RequestEnd(r) ==
    /\ UNCHANGED notTools
    /\ req[r].pc \in {"done", "error"}
    /\ req' = [req EXCEPT ![r] = Idle]
    /\ UNCHANGED <<store, calls>>

NextTools ==
    \/ \E r \in Slots : RouteStart(r)
    \/ \E r \in Slots : RouteGetById(r)
    \/ \E r \in Slots : RouteDiscovered(r)
    \/ \E r \in Slots : SyncToolsCall(r)
    \/ \E r \in Slots : SyncDelete(r)
    \/ \E r \in Slots : SyncCreate(r)
    \/ \E r \in Slots : RequestEnd(r)

-----------------------------------------------------------------------------
(* Claims about the stored tool set *)

\* request r ends its work in this step (its last await returns)
Completes(r) == req[r].pc # "done" /\ req'[r].pc = "done"

\* C3: when a discover-tools request for server S ends, no syncTools of
\* another request for S having run during it, the stored tool set of
\* (workspace, S) is exactly the list this discovery returned, the empty
\* list included.
C3_DiscoveryReplacesStoredTools ==
    [][\A r \in Slots :
        (Completes(r) /\ req'[r].kind = "route" /\ ~req'[r].overlap) =>
            store'[req'[r].key] = BagOf(req'[r].tools)]_vars

\* C4: a syncTools(workspace, S, T) call that overlaps no other sync for
\* (workspace, S) ends with exactly one stored row per element of T for
\* (workspace, S) and nothing else, and none of its steps changes the rows
\* of another server or workspace.
C4_SyncToolsReplacesExactly ==
    [][\A r \in Slots :
        /\ (Completes(r) /\ req'[r].synced /\ ~req'[r].overlap) =>
               store'[req'[r].key] = BagOf(req'[r].tools)
        /\ (InSync(r) /\ req'[r] # req[r]) =>
               \A k \in Keys \ {req[r].key} : store'[k] = store[k]]_vars

\* a sync of {B, C} that found a stale row has ended alone
C4_Witness ==
    \E r \in Slots :
        /\ req[r].pc = "done"
        /\ req[r].synced
        /\ ~req[r].overlap
        /\ req[r].stale
        /\ req[r].tools = <<"B", "C">>
        /\ store[req[r].key] = BagOf(<<"B", "C">>)

-----------------------------------------------------------------------------
(* runChat, the tool-call loop (runWithAnthropicSdk) and cancelRun.        *)
(* A slot is one runChat invocation; an invocation with a jobId creates a  *)
(* run, whose id (a fresh uuid) is the slot's number.  An action is the    *)
(* code that runs from the return of one await to the next await.          *)

\* for (let iteration = 0; iteration < 10; iteration++)
MaxIterations == 10

RunSlots == {1, 2}

\* the jobs runChat is invoked for: the invocations that name a job name
\* the same one
JobIds == {1}

\* the ids cancelRun may be called with: 3 is the id of no run
RunIds == {1, 2, 3}

\* A content block of a model reply: text, a text block whose text is the
\* empty string, a tool_use whose name is mcp__<server>__<tool>, a tool_use
\* with a name of another shape.
BlockKinds == {"text", "empty", "mcp", "other"}

\* the text blocks
TextKinds == {"text", "empty"}

\* the content blocks two concurrent invocations are replied with
PairKinds == {"text", "mcp"}

Replies(n) == UNION {[1..k -> replyKinds] : k \in 0..n}

StopReasons == {"end_turn", "tool_use"}

\* the positions of runChat inside completeRun(run.id, 'success') and
\* inside its catch block
CompletePcs == {"complete", "completeFind", "completeJob"}
CatchPcs == {"catch", "catchFind", "catchJob", "catchEvent"}

\* the positions of runWithAnthropicSdk after its loop: inside
\* sessionService.addMessage and at the 'stop' event
SavePcs == {"save", "saveTouch", "stop"}

\* the database calls runChat awaits before its try block, in order:
\* sessionService.getById, profileService.getById, workspaceService.getById,
\* sessionService.addMessage (two calls) and, with a jobId,
\* jobsService.createRun (two calls)
StartAwaits(job) ==
    <<"chatSession.findUnique", "agentProfile.findUnique",
      "workspace.findUnique", "chatMessage.create", "chatSession.update">>
        \o (IF job # 0 THEN <<"job.update", "run.create">> ELSE <<>>)

\* the calls executeAgentQuery awaits before it reads the API key:
\* getRecentHistory, the skills, the tools and, with a run, the context
\* snapshot and two trace events
QueryAwaits(id) ==
    <<"chatMessage.findMany", "skillMetadata.findMany", "mCPTool.findMany">>
        \o (IF id # 0
            THEN <<"contextSnapshot.create", "session_start", "user_prompt">>
            ELSE <<>>)

\* the calls runWithAnthropicSdk awaits before its loop: the server
\* configurations, the tools and, with a run, the system_init event
SdkAwaits(id) ==
    <<"mCPServerConfig.findMany", "mCPTool.findMany">>
        \o (IF id # 0 THEN <<"system_init">> ELSE <<>>)

NoCancel == [pc |-> "none", ti |-> 0, modelCalls |-> 0, dispatched |-> 0]

NewRun ==
    [pc |-> "idle",
     id |-> 0,             \* run?.id, 0 without a jobId
     job |-> 0,            \* the jobId runChat was given, 0 for none
     at |-> 0,             \* position in the awaits of the setup
     words |-> 0,          \* words the mock agent has streamed
     aborted |-> FALSE,    \* abortController.signal.aborted
     observed |-> FALSE,   \* history: the loop found signal.aborted set
     status |-> "none",    \* the run's stored status
     iteration |-> 0,
     modelCalls |-> 0,     \* client.messages.create calls made
     reply |-> <<>>,       \* response.content of the last model reply
     stop |-> "none",      \* response.stop_reason of the last model reply
     tools |-> <<>>,       \* toolUseBlocks of the current reply
     ti |-> 1,             \* position of the for loop over toolUseBlocks
     results |-> <<>>,     \* toolResults: <<position, "ok" | "err">>
     dispatched |-> 0,     \* executeTool calls made for the current reply
     hasText |-> FALSE,    \* fullResponse is not empty
     events |-> <<>>,      \* sink messages since the last model reply
     convLen |-> 0,        \* messages pushed to conversationMessages
     pushedLast |-> FALSE, \* the last two of them are the assistant
                           \* message of tools and the user message of
                           \* results
     cause |-> "none",     \* the await whose failure runChat caught
     nComplete |-> 0,      \* 'complete' messages sent to the sink
     nError |-> 0,         \* 'error' messages sent to the sink
     outcome |-> "pending",\* how runChat's promise settled
     cancelAt |-> NoCancel]\* history: where the run was when first aborted

\* onMessage(message): its type, the position of the tool it is about (for
\* a chunk: of the text block in the reply, 0 for the mock agent's text)
\* and its content
Emit(r, type, k, content) ==
    [r EXCEPT !.events = Append(@, [type |-> type, k |-> k,
                                    content |-> content])]

\* runChat's finally block has run and runChat has settled
Finally(r, outcome) == [r EXCEPT !.pc = "done", !.outcome = outcome]

\* mutant: the failure is swallowed and the run completes
Thrown_Swallowed(r, cause) ==
    LET r1 == [r EXCEPT !.nComplete = @ + 1, !.cause = cause]
    IN  IF r.id # 0 THEN [r1 EXCEPT !.pc = "complete"] ELSE Finally(r1, "resolved")

\* runChat's catch block up to its first await:
\* onMessage({ type: 'error' }); if (run) await completeRun(run.id, 'error')
Thrown(r, cause) ==
    LET r1 == [r EXCEPT !.nError = @ + 1, !.cause = cause]
    IN  IF r.id # 0 THEN [r1 EXCEPT !.pc = "catch"] ELSE Finally(r1, "resolved")

\* onMessage({ type: 'complete' }), the return to runChat, and
\* if (run) await completeRun(run.id, 'success')
Completed(r) ==
    LET r1 == [r EXCEPT !.nComplete = @ + 1]
    IN  IF r.id # 0 THEN [r1 EXCEPT !.pc = "complete"] ELSE Finally(r1, "resolved")

\* the mock agent's for loop over the words of its text: the word is sent
\* as a chunk, then await new Promise(resolve => setTimeout(resolve, 30))
MockWord(r) ==
    [Emit(r, "chunk", 0, "text")
        EXCEPT !.hasText = TRUE, !.words = @ + 1, !.pc = "mockTimer"]

\* runMockAgent up to its first await:
\* if (runId) await createEvent('system_init'), then the first word
MockAgent(r) == IF r.id # 0 THEN [r EXCEPT !.pc = "mockInit"] ELSE MockWord(r)

\* the mock agent after addMessage: if (runId) await createEvent('stop'),
\* then onMessage complete
MockStop(r) == IF r.id # 0 THEN [r EXCEPT !.pc = "mockStop"] ELSE Completed(r)

\* after addMessage: if (runId) await createEvent('stop'), then
\* onMessage complete
StopEvent(r) == IF r.id # 0 THEN [r EXCEPT !.pc = "stop"] ELSE Completed(r)

\* after the for loop: if (fullResponse) await addMessage
AfterLoop(r) == IF r.hasText THEN [r EXCEPT !.pc = "save"] ELSE StopEvent(r)

\* mutant: the loop condition is iteration <= 10
LoopHead_OffByOne(r) ==
    IF r.iteration > MaxIterations \/ r.aborted THEN AfterLoop(r)
    ELSE [r EXCEPT !.pc = "model", !.modelCalls = @ + 1]

\* the head of the for loop: iteration < 10, if (signal.aborted) break,
\* then await client.messages.create
LoopHead(r) ==
    IF r.iteration >= MaxIterations THEN AfterLoop(r)
    ELSE IF r.aborted THEN AfterLoop([r EXCEPT !.observed = TRUE])
    ELSE [r EXCEPT !.pc = "model", !.modelCalls = @ + 1]

\* the end of one iteration: the assistant message and the tool results
\* are pushed to conversationMessages, iteration++
EndBatch(r) ==
    LoopHead([r EXCEPT !.iteration = @ + 1, !.convLen = @ + 2,
                       !.pushedLast = TRUE])

\* await mcpService.executeTool(serverName, toolName, input, workspaceId)
CallExecuteTool(r) == [r EXCEPT !.pc = "exec", !.dispatched = @ + 1]

\* mutant: the tool loop does not look at the signal
AbortCheck_Never(r) == FALSE

\* if (signal.aborted) break, in the loop over toolUseBlocks
AbortCheck(r) == r.aborted

\* the loop over toolUseBlocks, up to its next await: a block whose name
\* is not mcp__<server>__<tool> is passed over
RECURSIVE ToolHead(_)
ToolHead(r) ==
    IF r.ti > Len(r.tools) THEN EndBatch(r)
    ELSE IF AbortCheck(r) THEN EndBatch([r EXCEPT !.observed = TRUE])
    ELSE IF r.tools[r.ti] = "mcp"
         THEN LET r1 == Emit(r, "tool_call", r.ti, "input")
              IN  IF r.id # 0 THEN [r1 EXCEPT !.pc = "pre"]
                  ELSE CallExecuteTool(r1)
    ELSE ToolHead([r EXCEPT !.ti = @ + 1])

\* a reply has arrived: hasToolUse, toolUseBlocks and toolResults are new
NewReply(r) ==
    [r EXCEPT !.events = <<>>, !.tools = <<>>, !.ti = 1, !.results = <<>>,
              !.dispatched = 0, !.pushedLast = FALSE]

\* response.content is processed: text is streamed and added to
\* fullResponse (an empty text leaves it as it is), tool_use collected;
\* the block at hand is the one after those streamed and collected so far
RECURSIVE ProcessBlocks(_, _)
ProcessBlocks(r, blocks) ==
    IF blocks = <<>> THEN r
    ELSE IF Head(blocks) \in TextKinds
         THEN ProcessBlocks(
                [Emit(r, "chunk", Len(r.events) + Len(r.tools) + 1,
                      Head(blocks))
                    EXCEPT !.hasText = @ \/ Head(blocks) = "text"],
                Tail(blocks))
    ELSE ProcessBlocks([r EXCEPT !.tools = Append(@, Head(blocks))],
                       Tail(blocks))

\* result.success ? JSON.stringify(result.result) : `Error: ${result.error}`
ResultContent(success) == IF success THEN "ok" ELSE "err"

\* mutant: a failed tool call is reported and then thrown
AfterExecuteTool_FailureThrows(r, success) ==
    LET r1 == Emit([r EXCEPT !.results =
                      Append(@, <<r.ti, ResultContent(success)>>)],
                   "tool_result", r.ti, ResultContent(success))
    IN  IF ~success THEN Thrown(r1, "tool")
        ELSE IF r.id # 0 THEN [r1 EXCEPT !.pc = "post"]
        ELSE ToolHead([r1 EXCEPT !.ti = @ + 1])

\* the code after await executeTool, up to the next await: the result is
\* pushed to toolResults and sent to the sink as tool_result
AfterExecuteTool(r, success) ==
    LET r1 == Emit([r EXCEPT !.results =
                      Append(@, <<r.ti, ResultContent(success)>>)],
                   "tool_result", r.ti, ResultContent(success))
    IN  IF r.id # 0 THEN [r1 EXCEPT !.pc = "post"]
        ELSE ToolHead([r1 EXCEPT !.ti = @ + 1])

\* mutant: the entry is deleted in the try block, after a recorded success
Unregister_InTry(reg, r) ==
    IF r.pc = "done" /\ r.id # 0 /\ r.status = "success" THEN reg \ {r.id}
    ELSE reg

\* finally { if (run) this.activeRuns.delete(run.id) }
Unregister(reg, r) ==
    IF r.pc = "done" /\ r.id # 0 THEN reg \ {r.id} ELSE reg

\* slot s moves to r
Step(s, r) ==
    /\ run' = [run EXCEPT ![s] = r]
    /\ activeRuns' = Unregister(activeRuns, r)
    /\ UNCHANGED <<lastCancel, nCancels, slots, blockBound, roundBound,
                   cancelBound, replyKinds>>
    /\ UNCHANGED notAgent

InitRuns ==
    /\ run = [s \in RunSlots |-> NewRun]
    /\ activeRuns = {}
    /\ lastCancel = [id |-> 0, ret |-> FALSE]
    /\ nCancels = 0

\* runChat is invoked, with or without a jobId: it runs to its first await,
\* sessionService.getById
RunChat(s) ==
    /\ s \in slots
    /\ run[s].pc = "idle"
    /\ \E job \in JobIds \cup {0} :
        run' = [run EXCEPT ![s] = [NewRun EXCEPT !.pc = "start", !.at = 1,
                                                 !.job = job]]
    /\ UNCHANGED <<activeRuns, lastCancel, nCancels, slots, blockBound,
                   roundBound, cancelBound, replyKinds>>
    /\ UNCHANGED notAgent

\* a database call runChat awaits before its try block returns or throws.
\* A throw rejects runChat: nothing is sent to the sink.  When the last
\* call has returned (run.create with a jobId: the run is stored with
\* status running), the run is registered and executeAgentQuery entered.
RunChatAwait(s) ==
    /\ run[s].pc = "start"
    /\ \E ok \in BOOLEAN :
        LET r == run[s]
            last == r.at = Len(StartAwaits(r.job))
        IN  /\ run' = [run EXCEPT ![s] =
                 IF ~ok THEN [r EXCEPT !.pc = "done", !.at = 0,
                                       !.outcome = "rejected"]
                 ELSE IF ~last THEN [r EXCEPT !.at = @ + 1]
                 ELSE IF r.job # 0
                      THEN [r EXCEPT !.pc = "setup", !.at = 1, !.id = s,
                                     !.status = "running"]
                 ELSE [r EXCEPT !.pc = "setup", !.at = 1]]
            /\ activeRuns' = IF ok /\ last /\ r.job # 0
                             THEN activeRuns \cup {s}
                             ELSE activeRuns
    /\ UNCHANGED <<lastCancel, nCancels, slots, blockBound, roundBound,
                   cancelBound, replyKinds>>
    /\ UNCHANGED notAgent

\* a call executeAgentQuery awaits returns or throws; after the last one
\* the API key is read: with a key runWithAnthropicSdk starts and awaits
\* listByWorkspace, without one the mock agent runs
AgentQuery(s) ==
    /\ run[s].pc = "setup"
    /\ \E ok \in BOOLEAN, apiKey \in BOOLEAN :
        LET r == run[s]
            last == r.at = Len(QueryAwaits(r.id))
        IN  /\ (~ok \/ ~last) => apiKey
            /\ Step(s, IF ~ok THEN Thrown([r EXCEPT !.at = 0], "setup")
                       ELSE IF ~last THEN [r EXCEPT !.at = @ + 1]
                       ELSE IF apiKey THEN [r EXCEPT !.pc = "sdk", !.at = 1]
                       ELSE MockAgent([r EXCEPT !.at = 0]))

\* a call runWithAnthropicSdk awaits before its loop returns or throws;
\* after the last one the loop starts
SdkSetup(s) ==
    /\ run[s].pc = "sdk"
    /\ \E ok \in BOOLEAN :
        LET r == run[s]
        IN  Step(s, IF ~ok THEN Thrown([r EXCEPT !.at = 0], "setup")
                    ELSE IF r.at < Len(SdkAwaits(r.id))
                         THEN [r EXCEPT !.at = @ + 1]
                    ELSE LoopHead([r EXCEPT !.at = 0]))

\* await traceService.createEvent(runId, 'system_init') of the mock agent
\* returns or throws
MockInit(s) ==
    /\ run[s].pc = "mockInit"
    /\ \E ok \in BOOLEAN :
        Step(s, IF ok THEN MockWord(run[s]) ELSE Thrown(run[s], "trace"))

\* the 30 ms timer after a word has run out: the next word is streamed;
\* after the last one, if (history.length > 0) await addMessage
MockTimer(s) ==
    /\ run[s].pc = "mockTimer"
    /\ \E history \in BOOLEAN :
        /\ run[s].words < MockWords => history
        /\ Step(s, IF run[s].words < MockWords THEN MockWord(run[s])
                   ELSE IF history THEN [run[s] EXCEPT !.pc = "mockSave"]
                   ELSE MockStop(run[s]))

\* await sessionService.addMessage(..., mockResponse), its first await:
\* prisma.chatMessage.create returns or throws
MockSave(s) ==
    /\ run[s].pc = "mockSave"
    /\ \E ok \in BOOLEAN :
        Step(s, IF ok THEN [run[s] EXCEPT !.pc = "mockTouch"]
                ELSE Thrown(run[s], "save"))

\* addMessage of the mock agent: prisma.chatSession.update returns or
\* throws
MockSaveUpdatesSession(s) ==
    /\ run[s].pc = "mockTouch"
    /\ \E ok \in BOOLEAN :
        Step(s, IF ok THEN MockStop(run[s]) ELSE Thrown(run[s], "save"))

\* await traceService.createEvent(runId, 'stop') of the mock agent returns
\* or throws
MockStopEvent(s) ==
    /\ run[s].pc = "mockStop"
    /\ \E ok \in BOOLEAN :
        Step(s, IF ok THEN Completed(run[s]) ELSE Thrown(run[s], "trace"))

\* client.messages.create throws
ModelFails(s) ==
    /\ run[s].pc = "model"
    /\ Step(s, Thrown(run[s], "model"))

\* mutant: the stop reason is not looked at
LoopEnds_NoToolUseOnly(r, stop) == r.tools = <<>>

\* if (!hasToolUse || response.stop_reason === 'end_turn') break
LoopEnds(r, stop) == r.tools = <<>> \/ stop = "end_turn"

\* client.messages.create returns a reply
ModelReplies(s) ==
    /\ run[s].pc = "model"
    /\ \E content \in Replies(blockBound), stop \in StopReasons :
        LET r0 == [NewReply(run[s]) EXCEPT !.reply = content, !.stop = stop]
            r1 == ProcessBlocks(r0, content)
        IN  /\ run[s].iteration >= roundBound => LoopEnds(r1, stop)
            /\ Step(s, IF LoopEnds(r1, stop)
                       THEN AfterLoop(r1)
                       ELSE ToolHead(r1))

\* await traceService.createEvent(runId, 'pre_tool_use') returns or throws
PreToolUse(s) ==
    /\ run[s].pc = "pre"
    /\ \E ok \in BOOLEAN :
        Step(s, IF ok THEN CallExecuteTool(run[s])
                ELSE Thrown(run[s], "trace"))

\* executeTool returns { success, result | error }: the result is pushed
\* to toolResults and streamed as tool_result
ExecuteToolReturns(s) ==
    /\ run[s].pc = "exec"
    /\ \E success \in BOOLEAN : Step(s, AfterExecuteTool(run[s], success))

\* await traceService.createEvent(runId, 'post_tool_use') returns or throws
PostToolUse(s) ==
    /\ run[s].pc = "post"
    /\ \E ok \in BOOLEAN :
        Step(s, IF ok THEN ToolHead([run[s] EXCEPT !.ti = @ + 1])
                ELSE Thrown(run[s], "trace"))

\* await sessionService.addMessage(..., fullResponse), its first await:
\* prisma.chatMessage.create returns or throws
SaveResponse(s) ==
    /\ run[s].pc = "save"
    /\ \E ok \in BOOLEAN :
        Step(s, IF ok THEN [run[s] EXCEPT !.pc = "saveTouch"]
                ELSE Thrown(run[s], "save"))

\* addMessage after the loop: prisma.chatSession.update returns or throws
SaveResponseUpdatesSession(s) ==
    /\ run[s].pc = "saveTouch"
    /\ \E ok \in BOOLEAN :
        Step(s, IF ok THEN StopEvent(run[s]) ELSE Thrown(run[s], "save"))

\* await traceService.createEvent(runId, 'stop') after the loop returns or
\* throws
StopEventReturns(s) ==
    /\ run[s].pc = "stop"
    /\ \E ok \in BOOLEAN :
        Step(s, IF ok THEN Completed(run[s]) ELSE Thrown(run[s], "save"))

\* jobsService.completeRun(run.id, 'success'), its first await:
\* prisma.run.update stores the status, or throws
CompleteRun(s) ==
    /\ run[s].pc = "complete"
    /\ \E ok \in BOOLEAN :
        Step(s, IF ok THEN [run[s] EXCEPT !.status = "success",
                                          !.pc = "completeFind"]
                ELSE Thrown(run[s], "record"))

\* completeRun(run.id, 'success'): prisma.job.findUnique returns the job,
\* or null (the job's status is then left alone), or throws
CompleteRunFindsJob(s) ==
    /\ run[s].pc = "completeFind"
    /\ \E ok \in BOOLEAN, found \in BOOLEAN :
        /\ ~ok => found
        /\ Step(s, IF ~ok THEN Thrown(run[s], "record")
                   ELSE IF found THEN [run[s] EXCEPT !.pc = "completeJob"]
                   ELSE Finally(run[s], "resolved"))

\* completeRun(run.id, 'success'): prisma.job.update returns or throws
CompleteRunUpdatesJob(s) ==
    /\ run[s].pc = "completeJob"
    /\ \E ok \in BOOLEAN :
        Step(s, IF ok THEN Finally(run[s], "resolved")
                ELSE Thrown(run[s], "record"))

\* the catch block: jobsService.completeRun(run.id, 'error'), its first
\* await: prisma.run.update stores the status, or throws and runChat
\* rejects
RecordError(s) ==
    /\ run[s].pc = "catch"
    /\ \E ok \in BOOLEAN :
        Step(s, IF ok THEN [run[s] EXCEPT !.status = "error",
                                          !.pc = "catchFind"]
                ELSE Finally(run[s], "rejected"))

\* completeRun(run.id, 'error'): prisma.job.findUnique returns the job, or
\* null, or throws
RecordErrorFindsJob(s) ==
    /\ run[s].pc = "catchFind"
    /\ \E ok \in BOOLEAN, found \in BOOLEAN :
        /\ ~ok => found
        /\ Step(s, IF ~ok THEN Finally(run[s], "rejected")
                   ELSE [run[s] EXCEPT !.pc = IF found THEN "catchJob"
                                              ELSE "catchEvent"])

\* completeRun(run.id, 'error'): prisma.job.update returns or throws
RecordErrorUpdatesJob(s) ==
    /\ run[s].pc = "catchJob"
    /\ \E ok \in BOOLEAN :
        Step(s, IF ok THEN [run[s] EXCEPT !.pc = "catchEvent"]
                ELSE Finally(run[s], "rejected"))

\* the catch block's await traceService.createEvent(run.id, 'error')
\* returns or throws
RecordErrorEvent(s) ==
    /\ run[s].pc = "catchEvent"
    /\ \E ok \in BOOLEAN :
        Step(s, Finally(run[s], IF ok THEN "resolved" ELSE "rejected"))

\* JobsService.cancelJob(j), called by POST /jobs/:id/cancel:
\* prisma.run.updateMany stores the status error for the job's runs whose
\* stored status is running.  (The route then calls cancelRun for the runs
\* it reads as running: see CancelRun.)
CancelJob(j) ==
    /\ \E s \in RunSlots : run[s].job = j /\ run[s].status = "running"
    /\ run' = [s \in RunSlots |->
                IF run[s].job = j /\ run[s].status = "running"
                THEN [run[s] EXCEPT !.status = "error"]
                ELSE run[s]]
    /\ UNCHANGED <<activeRuns, lastCancel, nCancels, slots, blockBound,
                   roundBound, cancelBound, replyKinds>>
    /\ UNCHANGED notAgent

\* mutant: every registered run is aborted
Abort_All(rn, id) ==
    [s \in RunSlots |->
        IF rn[s].id \in activeRuns THEN [rn[s] EXCEPT !.aborted = TRUE]
        ELSE rn[s]]

\* activeRun.abortController.abort(), for the entry found under id
Abort(rn, id) ==
    [s \in RunSlots |->
        IF rn[s].id = id /\ ~rn[s].aborted
        THEN [rn[s] EXCEPT !.aborted = TRUE,
                           !.cancelAt = [pc |-> rn[s].pc, ti |-> rn[s].ti,
                                         modelCalls |-> rn[s].modelCalls,
                                         dispatched |-> rn[s].dispatched]]
        ELSE rn[s]]

\* socket.on('cancel-run'): agentService.cancelRun(runId)
CancelRun(id) ==
    /\ nCancels < cancelBound
    /\ nCancels' = nCancels + 1
    /\ IF id \in activeRuns
       THEN /\ run' = Abort(run, id)
            /\ lastCancel' = [id |-> id, ret |-> TRUE]
       ELSE /\ run' = run
            /\ lastCancel' = [id |-> id, ret |-> FALSE]
    /\ UNCHANGED <<activeRuns, slots, blockBound, roundBound, cancelBound,
                   replyKinds>>
    /\ UNCHANGED notAgent

NextAgent ==
    \/ \E s \in RunSlots : RunChat(s)
    \/ \E s \in RunSlots : RunChatAwait(s)
    \/ \E s \in RunSlots : AgentQuery(s)
    \/ \E s \in RunSlots : SdkSetup(s)
    \/ \E s \in RunSlots : MockInit(s)
    \/ \E s \in RunSlots : MockTimer(s)
    \/ \E s \in RunSlots : MockSave(s)
    \/ \E s \in RunSlots : MockSaveUpdatesSession(s)
    \/ \E s \in RunSlots : MockStopEvent(s)
    \/ \E s \in RunSlots : ModelFails(s)
    \/ \E s \in RunSlots : ModelReplies(s)
    \/ \E s \in RunSlots : PreToolUse(s)
    \/ \E s \in RunSlots : ExecuteToolReturns(s)
    \/ \E s \in RunSlots : PostToolUse(s)
    \/ \E s \in RunSlots : SaveResponse(s)
    \/ \E s \in RunSlots : SaveResponseUpdatesSession(s)
    \/ \E s \in RunSlots : StopEventReturns(s)
    \/ \E s \in RunSlots : CompleteRun(s)
    \/ \E s \in RunSlots : CompleteRunFindsJob(s)
    \/ \E s \in RunSlots : CompleteRunUpdatesJob(s)
    \/ \E s \in RunSlots : RecordError(s)
    \/ \E s \in RunSlots : RecordErrorFindsJob(s)
    \/ \E s \in RunSlots : RecordErrorUpdatesJob(s)
    \/ \E s \in RunSlots : RecordErrorEvent(s)
    \/ \E id \in RunIds : CancelRun(id)
    \/ \E j \in JobIds : CancelJob(j)

\* the awaited calls of slot s return: the database calls, the timers and
\* the model endpoint.  mcpService.executeTool is not among them: its
\* promise may stay pending for ever (executeStdioTool after an id-2 line
\* with neither a result nor an error).
Returns(s) ==
    \/ RunChatAwait(s)
    \/ AgentQuery(s)
    \/ SdkSetup(s)
    \/ MockInit(s)
    \/ MockTimer(s)
    \/ MockSave(s)
    \/ MockSaveUpdatesSession(s)
    \/ MockStopEvent(s)
    \/ ModelFails(s)
    \/ ModelReplies(s)
    \/ PreToolUse(s)
    \/ PostToolUse(s)
    \/ SaveResponse(s)
    \/ SaveResponseUpdatesSession(s)
    \/ StopEventReturns(s)
    \/ CompleteRun(s)
    \/ CompleteRunFindsJob(s)
    \/ CompleteRunUpdatesJob(s)
    \/ RecordError(s)
    \/ RecordErrorFindsJob(s)
    \/ RecordErrorUpdatesJob(s)
    \/ RecordErrorEvent(s)

-----------------------------------------------------------------------------

(* executeTool and executeHttpTool: one call, from the look-up of the      *)
(* server to the returned { success, result | error }.                     *)

\* names a workspace's servers may have, and a name none of them has
ServerNames == {"s1", "s2"}
CallNames == ServerNames \cup {"s3"}

\* config.transport; "ws" stands for a value that is none of stdio, http,
\* sse; "absent" for a name with no configuration
Transports == {"stdio", "http", "sse", "ws"}

\* what listByWorkspace returns: server name -> transport
Listings == [ServerNames -> Transports \cup {"absent"}]

\* The response to the initialize request: fetch throws (network error,
\* timeout, no url), or a response with its ok flag and mcp-session-id
\* header ("null": no header, "": an empty header)
InitResponses ==
    {[throws |-> TRUE, ok |-> FALSE, session |-> "null"]}
        \cup [throws : {FALSE}, ok : BOOLEAN, session : {"null", "", "sid"}]

\* The response to tools/call: fetch throws, or a response with its ok
\* flag and content type
CallResponses ==
    {[throws |-> TRUE, ok |-> FALSE, sse |-> FALSE]}
        \cup [throws : {FALSE}, ok : BOOLEAN, sse : BOOLEAN]

\* A JSON-RPC envelope as the code reads it: result is "absent", "falsy"
\* or "truthy"; error is "absent" (or falsy), "msg" (an error object with a
\* non-empty message) or "nomsg" (a truthy error without one).  A server
\* may send an envelope with both a result and an error.
Envelopes ==
    [kind : {"envelope"},
     result : {"absent", "falsy", "truthy"},
     error : {"absent", "msg", "nomsg"}]

\* text that is not an envelope
Other(kind) == [kind |-> kind, result |-> "absent", error |-> "absent"]

\* a JSON body: text that does not parse, the value null, an envelope
JsonBodies == {Other("unparsable"), Other("null")} \cup Envelopes

\* a line of an event stream: one that does not start with 'data: ', or a
\* data line carrying a JSON body
SseLines == {Other("comment")} \cup JsonBodies

\* an event stream: the lines of response.text()
SseBodies == UNION {[1..n -> SseLines] : n \in 0..MaxSseLines}

NoOutcome == [settled |-> FALSE, success |-> FALSE, error |-> "", name |-> ""]

\* return { success: true, result }
Success == [settled |-> TRUE, success |-> TRUE, error |-> "", name |-> ""]

\* return { success: false, error }
Failure(error) ==
    [settled |-> TRUE, success |-> FALSE, error |-> error, name |-> ""]

\* return { success: false, error: `MCP server "${serverName}" not found` }
NotFound(serverName) ==
    [settled |-> TRUE, success |-> FALSE, error |-> "MCP server not found",
     name |-> serverName]

\* catch (err) { return { success: false, error: err.message } }
Caught == Failure("exception message")

\* data.error.message || 'Tool execution failed'
ErrorText(e) == IF e.error = "msg" THEN "rpc message" ELSE "Tool execution failed"

\* if (data.result) return success; if (data.error) return failure
EnvelopeOutcome(e) ==
    IF e.result = "truthy" THEN Success
    ELSE IF e.error # "absent" THEN Failure(ErrorText(e))
    ELSE NoOutcome

\* `HTTP ${response.status}: ${response.statusText}`
HttpStatusError == Failure("HTTP status")

\* the loop over the lines of an event stream: the first data line that
\* parses to a result or an error decides; a line that does not parse, or
\* parses to null, is passed over
RECURSIVE SseOutcome(_)
SseOutcome(lines) ==
    IF lines = <<>> THEN HttpStatusError
    ELSE IF Head(lines) \in Envelopes /\ EnvelopeOutcome(Head(lines)).settled
         THEN EnvelopeOutcome(Head(lines))
    ELSE SseOutcome(Tail(lines))

\* await response.json(), then the result and error checks
JsonOutcome(body) ==
    IF body \notin Envelopes THEN Caught
    ELSE IF EnvelopeOutcome(body).settled THEN EnvelopeOutcome(body)
    ELSE HttpStatusError

\* if (response.ok)
ResponseOk(r) == r.ok

\* mutant: the first configuration is taken whatever its name
Find_First(listing, name) ==
    IF \E n \in ServerNames : listing[n] # "absent"
    THEN listing[CHOOSE n \in ServerNames : listing[n] # "absent"]
    ELSE "absent"

\* configs.find(c => c.name === serverName): its transport, or "absent"
Find(listing, name) ==
    IF name \in ServerNames THEN listing[name] ELSE "absent"

\* sessionId = initResponse.ok ? initResponse.headers.get('mcp-session-id')
\* : null, as the test if (sessionId) reads it: "null" for none
SessionHeader(r) ==
    IF r.ok /\ r.session \notin {"null", ""} THEN r.session ELSE "null"

\* config.headers: without a session entry, with the entry
\* 'mcp-session-id': 'cfg', or with 'Mcp-Session-Id': 'cfg', the same
\* header under a key of another letter case
ConfigHeaders == {"none", "mcp-session-id", "Mcp-Session-Id"}

\* The mcp-session-id header a request carries, "null" for none.  Its
\* headers are { ..., ...config.headers } and, if (sessionId),
\* headers['mcp-session-id'] = sessionId: the session id replaces a
\* configured entry of the same key; next to an entry whose key differs in
\* letter case the object holds both, and fetch sends the header with the
\* two values joined.
RequestSession(configured, sessionId) ==
    IF sessionId = "null"
    THEN IF configured = "none" THEN "null" ELSE "cfg"
    ELSE IF configured = "Mcp-Session-Id" THEN "cfg, sid"
    ELSE sessionId

\* no call yet; init, resp and body record the responses the call
\* received (body: the lines of an event stream, or the one JSON body)
NoCall ==
    [pc |-> "idle", op |-> "none", server |-> "none", listed |-> FALSE,
     listing |-> [n \in ServerNames |-> "absent"], transport |-> "none",
     headers |-> "none",
     init |-> [throws |-> FALSE, ok |-> FALSE, session |-> "null"],
     resp |-> [throws |-> FALSE, ok |-> FALSE, sse |-> FALSE],
     body |-> <<>>, result |-> NoOutcome]

InitCall ==
    /\ tc = NoCall
    /\ fetches = <<>>
    /\ spawns = 0

\* the call returns
Return(outcome) == tc' = [tc EXCEPT !.pc = "done", !.result = outcome]

\* executeTool(serverName, toolName, args, workspaceId) is called:
\* await this.listByWorkspace(workspaceId)
ExecuteTool ==
    /\ tc.pc = "idle"
    /\ \E name \in CallNames :
        tc' = [tc EXCEPT !.pc = "list", !.op = "call", !.server = name]
    /\ UNCHANGED <<fetches, spawns>>
    /\ UNCHANGED notCall

\* listByWorkspace throws: executeTool's catch block
ListFails ==
    /\ tc.pc = "list"
    /\ Return(Caught)
    /\ UNCHANGED <<fetches, spawns>>
    /\ UNCHANGED notCall

\* listByWorkspace returns: the server is looked up and the call is
\* dispatched by transport; executeHttpTool issues its initialize request,
\* executeStdioTool spawns the command
Dispatch ==
    /\ tc.pc = "list"
    /\ \E listing \in Listings, hd \in ConfigHeaders :
        LET t == Find(listing, tc.server)
            c == [tc EXCEPT !.listed = TRUE, !.listing = listing,
                            !.transport = Find(listing, tc.server),
                            !.headers = hd]
        IN  /\ tc' = IF t = "absent"
                     THEN [c EXCEPT !.pc = "done",
                                    !.result = NotFound(tc.server)]
                     ELSE IF t \in {"http", "sse"} THEN [c EXCEPT !.pc = "init"]
                     ELSE IF t = "stdio" THEN [c EXCEPT !.pc = "stdio"]
                     ELSE [c EXCEPT !.pc = "done",
                                    !.result = Failure("Unsupported transport")]
            /\ t \notin {"http", "sse"} => hd = "none"
            /\ fetches' = IF t \in {"http", "sse"}
                          THEN <<[method |-> "initialize",
                                  session |-> RequestSession(hd, "null")]>>
                          ELSE fetches
            /\ spawns' = IF t = "stdio" THEN spawns + 1 ELSE spawns
    /\ UNCHANGED notCall

\* executeStdioTool's promise resolves: with the result, the timeout, the
\* server's error (msg.error.message || 'Tool failed'), or the message of
\* a spawn failure
StdioToolReturns ==
    /\ tc.pc = "stdio"
    /\ \E outcome \in {Success, Failure("Tool execution timed out"),
                       Failure("rpc message"), Failure("Tool failed"),
                       Caught} : Return(outcome)
    /\ UNCHANGED <<fetches, spawns>>
    /\ UNCHANGED notCall

\* the initialize fetch settles: the session id is taken from an ok
\* response, and tools/call is sent, with the mcp-session-id header when
\* the session id is truthy
InitializeSettles ==
    /\ tc.pc = "init"
    /\ \E r \in InitResponses :
        IF r.throws
        THEN /\ tc' = [tc EXCEPT !.pc = "done", !.init = r, !.result = Caught]
             /\ fetches' = fetches
        ELSE /\ tc' = [tc EXCEPT !.pc = "call", !.init = r]
             /\ fetches' = Append(fetches,
                    [method |-> "tools/call",
                     session |-> RequestSession(tc.headers,
                                                SessionHeader(r))])
    /\ UNCHANGED spawns
    /\ UNCHANGED notCall

\* the tools/call fetch settles: a response that is not ok is reported by
\* its status, the body of an ok response is read
ToolsCallSettles ==
    /\ tc.pc = "call"
    /\ \E r \in CallResponses :
        tc' = IF r.throws
              THEN [tc EXCEPT !.pc = "done", !.resp = r, !.result = Caught]
              ELSE IF ResponseOk(r) THEN [tc EXCEPT !.pc = "body", !.resp = r]
              ELSE [tc EXCEPT !.pc = "done", !.resp = r,
                              !.result = HttpStatusError]
    /\ UNCHANGED <<fetches, spawns>>
    /\ UNCHANGED notCall

\* await response.text() / response.json() settles: reading the body
\* throws, or the body is parsed
BodySettles ==
    /\ tc.pc = "body"
    /\ \/ tc' = [tc EXCEPT !.pc = "done", !.result = Caught]
       \/ /\ tc.resp.sse
          /\ \E b \in SseBodies :
               tc' = [tc EXCEPT !.pc = "done", !.body = b,
                                !.result = SseOutcome(b)]
       \/ /\ ~tc.resp.sse
          /\ \E b \in JsonBodies :
               tc' = [tc EXCEPT !.pc = "done", !.body = <<b>>,
                                !.result = JsonOutcome(b)]
    /\ UNCHANGED <<fetches, spawns>>
    /\ UNCHANGED notCall

\* an envelope whose result has a truthy tools member
ToolsEnvelope == [kind |-> "envelope", result |-> "tools", error |-> "absent"]

\* the JSON bodies discoverHttpTools tells apart: text that does not
\* parse, null, a result without tools, an error, a result with tools,
\* a result with tools next to an error
ListBodies ==
    {Other("unparsable"), Other("null"),
     [kind |-> "envelope", result |-> "truthy", error |-> "absent"],
     [kind |-> "envelope", result |-> "absent", error |-> "msg"],
     ToolsEnvelope,
     [kind |-> "envelope", result |-> "tools", error |-> "msg"]}

\* the lines of an event-stream answer to tools/list
ListSseBodies ==
    UNION {[1..n -> ListBodies \cup {Other("comment")}] : n \in 0..MaxSseLines}

\* discoverHttpTools returns data.result.tools, or []
ToolList(found) ==
    [settled |-> TRUE, success |-> found, error |-> "",
     name |-> IF found THEN "tools" ELSE "empty"]

\* the loop over the lines of an event stream: the first data line with
\* result.tools is returned
ListSseOutcome(lines) ==
    ToolList(\E i \in 1..Len(lines) : lines[i].result = "tools")

\* await response.json(), then if (data.result?.tools): a body that does
\* not parse, or null, ends in the catch block, which returns []
ListJsonOutcome(body) == ToolList(body.result = "tools")

\* discoverTools(config): a stdio configuration with a command spawns
\* the command, an http or sse configuration with a url issues the
\* initialize request, any other configuration gives []
DiscoverTools ==
    /\ tc.pc = "idle"
    /\ \E t \in Transports, usable \in BOOLEAN, hd \in ConfigHeaders :
        LET c == [tc EXCEPT !.op = "discover", !.transport = t,
                            !.headers = hd]
        IN  /\ tc' = IF t \in {"http", "sse"} /\ usable
                     THEN [c EXCEPT !.pc = "dinit"]
                     ELSE IF t = "stdio" /\ usable
                     THEN [c EXCEPT !.pc = "dstdio"]
                     ELSE [c EXCEPT !.pc = "done", !.result = ToolList(FALSE)]
            /\ ~(t \in {"http", "sse"} /\ usable) => hd = "none"
            /\ fetches' = IF t \in {"http", "sse"} /\ usable
                          THEN <<[method |-> "initialize",
                                  session |-> RequestSession(hd, "null")]>>
                          ELSE fetches
            /\ spawns' = IF t = "stdio" /\ usable THEN spawns + 1 ELSE spawns
    /\ UNCHANGED notCall

\* discoverStdioTools' promise resolves
StdioDiscoveryReturns ==
    /\ tc.pc = "dstdio"
    /\ \E found \in BOOLEAN : Return(ToolList(found))
    /\ UNCHANGED <<fetches, spawns>>
    /\ UNCHANGED notCall

\* discoverHttpTools' initialize fetch settles: the session id is taken
\* from an ok response and tools/list is sent
ListInitializeSettles ==
    /\ tc.pc = "dinit"
    /\ \E r \in InitResponses :
        IF r.throws
        THEN /\ tc' = [tc EXCEPT !.pc = "done", !.init = r,
                                 !.result = ToolList(FALSE)]
             /\ fetches' = fetches
        ELSE /\ tc' = [tc EXCEPT !.pc = "dlist", !.init = r]
             /\ fetches' = Append(fetches,
                    [method |-> "tools/list",
                     session |-> RequestSession(tc.headers,
                                                SessionHeader(r))])
    /\ UNCHANGED spawns
    /\ UNCHANGED notCall

\* the tools/list fetch settles
ToolsListSettles ==
    /\ tc.pc = "dlist"
    /\ \E r \in CallResponses :
        tc' = IF r.throws \/ ~ResponseOk(r)
              THEN [tc EXCEPT !.pc = "done", !.resp = r,
                              !.result = ToolList(FALSE)]
              ELSE [tc EXCEPT !.pc = "dbody", !.resp = r]
    /\ UNCHANGED <<fetches, spawns>>
    /\ UNCHANGED notCall

\* await response.text() / response.json() settles in discoverHttpTools
ListBodySettles ==
    /\ tc.pc = "dbody"
    /\ \/ tc' = [tc EXCEPT !.pc = "done", !.result = ToolList(FALSE)]
       \/ /\ tc.resp.sse
          /\ \E b \in ListSseBodies :
               tc' = [tc EXCEPT !.pc = "done", !.body = b,
                                !.result = ListSseOutcome(b)]
       \/ /\ ~tc.resp.sse
          /\ \E b \in ListBodies :
               tc' = [tc EXCEPT !.pc = "done", !.body = <<b>>,
                                !.result = ListJsonOutcome(b)]
    /\ UNCHANGED <<fetches, spawns>>
    /\ UNCHANGED notCall

NextCall ==
    \/ DiscoverTools
    \/ StdioDiscoveryReturns
    \/ ListInitializeSettles
    \/ ToolsListSettles
    \/ ListBodySettles
    \/ ExecuteTool
    \/ ListFails
    \/ Dispatch
    \/ StdioToolReturns
    \/ InitializeSettles
    \/ ToolsCallSettles
    \/ BodySettles

-----------------------------------------------------------------------------

(* Tool names: the risk classification (isHighRiskTool) and the full     *)
(* name mcp__<server>__<tool>, built by syncTools and taken apart by the   *)
(* tool-call loop.  A string is a sequence of one-character strings.       *)

UpperCase == <<"A", "B", "C", "D", "E", "F", "G", "H", "I", "J", "K", "L", "M", "N", "O", "P", "Q", "R", "S", "T", "U", "V", "W", "X", "Y", "Z">>
LowerCase == <<"a", "b", "c", "d", "e", "f", "g", "h", "i", "j", "k", "l", "m", "n", "o", "p", "q", "r", "s", "t", "u", "v", "w", "x", "y", "z">>

\* one character of String.prototype.toLowerCase
LowerChar(c) ==
    IF \E i \in 1..26 : UpperCase[i] = c
    THEN LowerCase[CHOOSE i \in 1..26 : UpperCase[i] = c]
    ELSE c

\* mutant: the text is searched as it is
ToLowerCase_Identity(s) == s

\* s.toLowerCase()
ToLowerCase(s) == [i \in 1..Len(s) |-> LowerChar(s[i])]

\* s.startsWith(p)
StartsWith(s, p) == Len(p) <= Len(s) /\ SubSeq(s, 1, Len(p)) = p

\* text.includes(pattern): the text is scanned from the left
RECURSIVE Includes(_, _)
Includes(text, pattern) ==
    IF StartsWith(text, pattern) THEN TRUE
    ELSE IF text = <<>> THEN FALSE
    ELSE Includes(Tail(text), pattern)

HIGH_RISK_PATTERNS ==
    {<<"b", "a", "s", "h">>,
     <<"s", "h", "e", "l", "l">>,
     <<"e", "x", "e", "c">>,
     <<"c", "o", "m", "m", "a", "n", "d">>,
     <<"r", "u", "n">>,
     <<"w", "r", "i", "t", "e">>,
     <<"d", "e", "l", "e", "t", "e">>,
     <<"r", "e", "m", "o", "v", "e">>,
     <<"r", "m">>,
     <<"f", "i", "l", "e", "s", "y", "s", "t", "e", "m">>,
     <<"f", "i", "l", "e", "_", "w", "r", "i", "t", "e">>,
     <<"f", "i", "l", "e", "_", "d", "e", "l", "e", "t", "e">>,
     <<"q", "u", "e", "r", "y">>,
     <<"s", "q", "l">>,
     <<"d", "a", "t", "a", "b", "a", "s", "e">>,
     <<"h", "t", "t", "p">>,
     <<"f", "e", "t", "c", "h">>,
     <<"r", "e", "q", "u", "e", "s", "t">>}

\* isHighRiskTool(toolName, description)
IsHighRiskTool(toolName, description) ==
    LET text == ToLowerCase(toolName \o <<" ">> \o description)
    IN  \E pattern \in HIGH_RISK_PATTERNS : Includes(text, pattern)

\* pieces tool names are put together from
NameFragments ==
    {<<"d", "e", "l", "e", "t", "e">>,
     <<"D", "e", "l", "e", "t", "e">>,
     <<"D", "E", "L", "E", "T", "E">>,
     <<"b", "a", "s", "h">>,
     <<"B", "a", "S", "h">>,
     <<"s", "q", "l">>,
     <<"S", "Q", "L">>,
     <<"l", "i", "s", "t", "_", "f", "i", "l", "e", "s">>,
     <<"g", "e", "t">>,
     <<"_">>,
     <<"r">>,
     <<"m">>,
     <<"x">>}

\* tool names: up to two pieces
ToolNameStrings ==
    {<<>>} \cup NameFragments
        \cup {a \o b : a \in NameFragments, b \in NameFragments}

Descriptions ==
    {<<>>,
     <<"l", "i", "s", "t", " ", "f", "i", "l", "e", "s">>,
     <<"R", "e", "a", "d", "s", " ", "a", " ", "r", "o", "w">>,
     <<"R", "u", "n", " ", "i", "t">>}

\* `mcp__${serverName}__${tool.name}`
FullName(serverName, toolName) ==
    <<"m", "c", "p", "_", "_">> \o serverName \o <<"_", "_">> \o toolName

\* s.split('__'): the separator is looked for from the left, and matches
\* do not overlap
RECURSIVE SplitSep(_, _, _)
SplitSep(s, acc, cur) ==
    IF s = <<>> THEN Append(acc, cur)
    ELSE IF StartsWith(s, <<"_", "_">>)
         THEN SplitSep(SubSeq(s, 3, Len(s)), Append(acc, cur), <<>>)
    ELSE SplitSep(Tail(s), acc, Append(cur, Head(s)))

\* parts.join('__')
RECURSIVE JoinSep(_)
JoinSep(parts) ==
    IF parts = <<>> THEN <<>>
    ELSE IF Len(parts) = 1 THEN parts[1]
    ELSE parts[1] \o <<"_", "_">> \o JoinSep(Tail(parts))

\* parts = toolUse.name.split('__'); if (parts.length >= 3 && parts[0] ===
\* 'mcp') serverName = parts[1], toolName = parts.slice(2).join('__')
ResolveFullName(name) ==
    LET parts == SplitSep(name, <<>>, <<>>)
    IN  IF Len(parts) >= 3 /\ parts[1] = <<"m", "c", "p">>
        THEN [mcp |-> TRUE, serverName |-> parts[2],
              toolName |-> JoinSep(SubSeq(parts, 3, Len(parts)))]
        ELSE [mcp |-> FALSE, serverName |-> <<>>, toolName |-> <<>>]

\* pieces server and tool names are put together from
NamePieces ==
    {<<"a">>, <<"b">>, <<"_">>, <<"_", "_">>, <<"m", "c", "p">>}

\* server and tool names: up to MaxPieces pieces
RECURSIVE PieceStrings(_)
PieceStrings(n) ==
    IF n = 0 THEN {<<>>}
    ELSE PieceStrings(n - 1)
            \cup {a \o b : a \in PieceStrings(n - 1), b \in NamePieces}

InitNames ==
    /\ rk = [done |-> FALSE, name |-> <<>>, description |-> <<>>,
             isHighRisk |-> FALSE]
    /\ fn = [done |-> FALSE, serverName |-> <<>>, toolName |-> <<>>,
             fullName |-> <<>>,
             resolved |-> [mcp |-> FALSE, serverName |-> <<>>,
                           toolName |-> <<>>]]

\* syncTools classifies a discovered tool
Classify ==
    /\ ~rk.done /\ ~fn.done
    /\ \E name \in ToolNameStrings, description \in Descriptions :
        rk' = [done |-> TRUE, name |-> name, description |-> description,
               isHighRisk |-> IsHighRiskTool(name, description)]
    /\ UNCHANGED fn
    /\ UNCHANGED notNames

\* syncTools builds the full name of a tool of a server; the model
\* requests the tool by that name and the loop resolves it
BuildAndResolve ==
    /\ ~rk.done /\ ~fn.done
    /\ \E serverName \in PieceStrings(MaxPieces) \ {<<>>},
          toolName \in PieceStrings(MaxPieces) \ {<<>>} :
        fn' = [done |-> TRUE, serverName |-> serverName,
               toolName |-> toolName,
               fullName |-> FullName(serverName, toolName),
               resolved |-> ResolveFullName(FullName(serverName, toolName))]
    /\ UNCHANGED rk
    /\ UNCHANGED notNames

NextNames ==
    \/ Classify
    \/ BuildAndResolve

-----------------------------------------------------------------------------

(* The tools offered to the model and the dispatch of one requested tool  *)
(* (runWithAnthropicSdk's filter and tool loop, executeTool's lookup).     *)

\* the names of the servers a workspace may have configured
DispatchServers == {<<"a">>, <<"b">>}

\* the names the model may put in a tool_use block: the full name of a
\* tool of a configured server or of a server never configured, or a name
\* of another shape
RequestedNames ==
    {FullName(n, <<"t">>) : n \in DispatchServers \cup {<<"c">>}}
        \cup {<<"g", "e", "t">>}

\* a server configuration as the loop and executeTool read it (enabled,
\* transport), and the value standing for no configuration of that name
NoConfig == [present |-> FALSE, enabled |-> FALSE, transport |-> "none"]

DispatchConfigs ==
    {NoConfig} \cup [present : {TRUE}, enabled : BOOLEAN, transport : Transports]

\* what listByWorkspace returns: server name -> configuration
DispatchListings == [DispatchServers -> DispatchConfigs]

\* configs.find(c => c.name === serverName)
FindConfig(listing, name) ==
    IF name \in DispatchServers THEN listing[name] ELSE NoConfig

\* enabledMcpTools: the stored tools whose server's configuration exists
\* and is enabled and whose server is in the profile's enabledMcpServers
EnabledMcpTools(configs, enabledServerNames, stored) ==
    {n \in stored : /\ FindConfig(configs, n).enabled
                    /\ n \in enabledServerNames}

NoDispatch ==
    [pc |-> "idle",
     hasRun |-> FALSE,            \* runId is given
     aborted |-> FALSE,           \* signal.aborted
     configs |-> [n \in DispatchServers |-> NoConfig],   \* mcpConfigs
     enabledServerNames |-> {},   \* profile.enabledMcpServers || []
     stored |-> {},               \* servers with a tool t in mcpTools
     offered |-> {},              \* servers whose tool is in tools
     requested |-> <<>>,          \* toolUse.name
     called |-> FALSE,            \* executeTool was invoked
     serverName |-> <<>>,         \* the server name it was invoked with
     config |-> NoConfig,         \* the configuration executeTool found
     ran |-> FALSE]               \* the call was passed to a transport

InitDispatch == dp = NoDispatch

Dispatched(d) == dp' = d /\ UNCHANGED notDispatch

\* an awaited call of runWithAnthropicSdk throws: the catch block rethrows
\* and the loop is over
DispatchOver(d) == [d EXCEPT !.pc = "done"]

\* runWithAnthropicSdk is called with the profile, the signal and, for a
\* run of a job, the run id: mcpService.listByWorkspace is awaited.  A
\* signal that was aborted before the call belongs to a registered run.
RunWithAnthropicSdk ==
    /\ dp.pc = "idle"
    /\ \E hasRun \in BOOLEAN, enabledServerNames \in SUBSET DispatchServers :
        /\ dp.aborted => hasRun
        /\ Dispatched([dp EXCEPT !.pc = "configs", !.hasRun = hasRun,
                                 !.enabledServerNames = enabledServerNames])

\* cancelRun(runId) finds the run registered and aborts its controller:
\* the run is registered from before executeAgentQuery is called (so
\* before runWithAnthropicSdk is) until runChat's finally block
CancelDispatch ==
    /\ dp.pc = "idle" \/ dp.hasRun
    /\ ~dp.aborted
    /\ Dispatched([dp EXCEPT !.aborted = TRUE])

\* listByWorkspace returns the configurations stored at that time, or
\* throws; listToolsByWorkspace is awaited
LoadConfigs ==
    /\ dp.pc = "configs"
    /\ \/ Dispatched(DispatchOver(dp))
       \/ \E configs \in DispatchListings :
            Dispatched([dp EXCEPT !.pc = "tools", !.configs = configs])

\* for (iteration < 10) { if (signal.aborted) break;
\* await client.messages.create(...)
DispatchLoopHead(d) ==
    IF d.aborted THEN DispatchOver(d) ELSE [d EXCEPT !.pc = "model"]

\* listToolsByWorkspace returns the tools stored at that time, or throws;
\* the tools offered to the model are filtered; with a run id the
\* system_init event is awaited, without one the loop is entered
LoadTools ==
    /\ dp.pc = "tools"
    /\ \/ Dispatched(DispatchOver(dp))
       \/ \E stored \in SUBSET DispatchServers :
            LET d == [dp EXCEPT !.stored = stored,
                                !.offered = EnabledMcpTools(dp.configs,
                                               dp.enabledServerNames, stored)]
            IN  Dispatched(IF d.hasRun THEN [d EXCEPT !.pc = "sysinit"]
                           ELSE DispatchLoopHead(d))

\* traceService.createEvent(runId, 'system_init') returns or throws
SystemInit ==
    /\ dp.pc = "sysinit"
    /\ \/ Dispatched(DispatchOver(dp))
       \/ Dispatched(DispatchLoopHead(dp))

\* client.messages.create throws, or returns a reply holding a tool_use
\* block: the loop ends on stop_reason end_turn and on an aborted signal;
\* otherwise the name is split, and for a name of the shape
\* mcp__<server>__<tool> the tool_call message is sent and, with a run
\* id, the pre_tool_use event awaited; without one executeTool is invoked
ToolUse ==
    /\ dp.pc = "model"
    /\ \/ Dispatched(DispatchOver(dp))
       \/ \E name \in RequestedNames, stop \in StopReasons :
            LET res == ResolveFullName(name)
                d == [dp EXCEPT !.requested = name]
            IN  Dispatched(
                    IF stop = "end_turn" \/ dp.aborted \/ ~res.mcp
                    THEN DispatchOver(d)
                    ELSE IF dp.hasRun
                    THEN [d EXCEPT !.pc = "pre",
                                   !.serverName = res.serverName]
                    ELSE [d EXCEPT !.pc = "exec", !.called = TRUE,
                                   !.serverName = res.serverName])

\* traceService.createEvent(runId, 'pre_tool_use') throws, or returns and
\* mcpService.executeTool is invoked
PreToolUseEvent ==
    /\ dp.pc = "pre"
    /\ \/ Dispatched(DispatchOver(dp))
       \/ Dispatched([dp EXCEPT !.pc = "exec", !.called = TRUE])

\* executeTool: its own listByWorkspace throws (the catch block returns a
\* failure), or returns the configurations stored at that time;
\* configs.find(c => c.name === serverName); a configuration that is
\* found is passed to its transport's method, whatever its enabled flag;
\* another transport gives 'Unsupported transport'
ExecuteToolLookup ==
    /\ dp.pc = "exec"
    /\ \/ Dispatched(DispatchOver(dp))
       \/ \E listing \in DispatchListings :
            LET config == FindConfig(listing, dp.serverName)
            IN  Dispatched([dp EXCEPT
                    !.pc = "done", !.config = config,
                    !.ran = /\ config.present
                            /\ config.transport \in {"http", "sse", "stdio"}])

NextDispatch ==
    \/ RunWithAnthropicSdk
    \/ CancelDispatch
    \/ LoadConfigs
    \/ LoadTools
    \/ SystemInit
    \/ ToolUse
    \/ PreToolUseEvent
    \/ ExecuteToolLookup

-----------------------------------------------------------------------------

\* one runChat invocation at a time
InitAgent ==
    /\ InitRuns
    /\ slots = {1}
    /\ blockBound = MaxBlocks
    /\ roundBound = MaxIterations
    /\ cancelBound = MaxCancels
    /\ replyKinds = BlockKinds

\* one runChat invocation, followed to its end
InitOne ==
    /\ InitRuns
    /\ slots = {1}
    /\ blockBound = MaxBlocksFair
    /\ roundBound = MaxIterations
    /\ cancelBound = MaxCancelsFair
    /\ replyKinds = BlockKinds

\* two concurrent runChat invocations
InitPair ==
    /\ InitRuns
    /\ slots = RunSlots
    /\ blockBound = MaxBlocksPair
    /\ roundBound = MaxRoundsPair
    /\ cancelBound = MaxCancelsPair
    /\ replyKinds = PairKinds

Init ==
    InitStdio /\ InitTools /\ InitAgent /\ InitCall /\ InitNames /\ InitDispatch

InitTermination ==
    InitStdio /\ InitTools /\ InitOne /\ InitCall /\ InitNames /\ InitDispatch

InitConcurrent ==
    InitStdio /\ InitTools /\ InitPair /\ InitCall /\ InitNames /\ InitDispatch

SpecStdio == Init /\ [][NextStdio]_vars

SpecTools == Init /\ [][NextTools]_vars

SpecAgent == Init /\ [][NextAgent]_vars

\* every awaited call other than executeTool returns or throws: the model
\* endpoint answers, the timers run out, the database calls finish
FairSpecAgent ==
    /\ InitTermination
    /\ [][NextAgent]_vars
    /\ \A s \in RunSlots : WF_vars(Returns(s))

SpecRuns == InitConcurrent /\ [][NextAgent]_vars

SpecCall == Init /\ [][NextCall]_vars

SpecNames == Init /\ [][NextNames]_vars

SpecDispatch == Init /\ [][NextDispatch]_vars

\* Node runs an armed timer's callback, and emits a failed spawn's 'error'
\* event, whatever the subprocess does.
FairSpecStdio == SpecStdio /\ WF_vars(TimerFire) /\ WF_vars(ProcError)

-----------------------------------------------------------------------------
(* Claims about the stdio transport *)

\* C1: executeStdioTool's promise is resolved no later than the moment its
\* 30-second timer fires, whatever the subprocess does: while the promise is
\* pending the timer is still armed.
C1_ExecResolvedByDeadline ==
    (op = "exec" /\ ~result.settled) => timer = "armed"

\* a follow-up request (tools/list, tools/call) has been written
FollowUpWritten == \E i \in 1..Len(writes) : writes[i].method # "initialize"

\* C2: in stdio discoverTools and callTool the initialize request is the
\* first message written, and tools/list or tools/call is written only after
\* a stdout line parsed as a response with id 1 and a result.
C2_InitializeBeforeFollowUp ==
    op \in {"discover", "exec"} =>
        /\ writes # <<>> => writes[1] = [method |-> "initialize", id |-> 1]
        /\ \A i \in 2..Len(writes) : writes[i].method # "initialize"
        /\ FollowUpWritten => seenInit

C2_Witness ==
    /\ op = "discover"
    /\ Len(writes) = 2
    /\ writes[2].method = "tools/list"
    /\ seenInit

\* the subprocess is not running: it never started, or it has exited
ProcGone == procState \in {"null", "exited", "closed"}

\* the server process has been ended by an uncaught exception while the
\* operation's promise was pending: the operation never returns
Stranded == uncaught /\ ~result.settled

\* C9: when the command never writes a response to stdout, testConnection
\* returns, with success = false, and the process is no longer running
\* when it returns.
C9_SilentCommandFailsAndIsGone ==
    (op = "test" /\ ~replied) =>
        /\ ~Stranded
        /\ result.settled => (~result.success /\ ProcGone)

\* an event that decides testStdioConnection has happened
TestDecided ==
    \/ IncludesBrace(output)
    \/ procState = "closed"
    \/ timer = "fired"
    \/ (procState = "exited" /\ exitCode = "nonzero")   \* 'error' emitted

\* C10: testStdioConnection never hangs.  While it is pending its timer is
\* armed, and it does return; the first of stdout data carrying a JSON
\* marker, spawn error, close and timer settles the result, which never
\* changes afterwards; when the timer is that first event the process is
\* killed and the result is the timeout failure.
C10_TestNeverHangs ==
    /\ []((op = "test" /\ ~result.settled) => (timer = "armed" /\ ~TestDecided))
    /\ []((op = "test" /\ TestDecided) => result.settled)
    /\ [][(op = "test" /\ result.settled) => result' = result]_vars
    /\ [][(op = "test" /\ timer = "armed" /\ timer' = "fired") =>
            /\ killCalls' = killCalls + 1
            /\ result' = Outcome(FALSE, "timeout", "timer")]_vars
    /\ (op = "test") ~> result.settled

-----------------------------------------------------------------------------
(* Claims about the tool-call loop and the run registry.                   *)

\* the run in slot s was first aborted while executeTool was awaited
CancelledInFlight(s) == run[s].cancelAt.pc = "exec"

\* C5: a run cancelled while tool invocation N of a batch is in flight
\* makes no further model call and starts no invocation after N (none is
\* announced to the sink, none is passed to executeTool), and once
\* invocation N has returned its result is in toolResults and its
\* tool_result has been sent to the sink.
C5_CancelInFlightTool ==
    \A s \in RunSlots :
        CancelledInFlight(s) =>
            LET r == run[s]
                n == r.cancelAt.ti
            IN  /\ r.modelCalls = r.cancelAt.modelCalls
                /\ r.dispatched = r.cancelAt.dispatched
                /\ r.pc \in {"exec", "post", "done"} \cup SavePcs
                                    \cup CompletePcs \cup CatchPcs
                /\ \A i \in 1..Len(r.events) :
                       r.events[i].type = "tool_call" => r.events[i].k <= n
                /\ r.pc = "exec" => r.ti = n
                /\ r.pc # "exec" =>
                       /\ \E i \in 1..Len(r.events) :
                              /\ r.events[i].type = "tool_result"
                              /\ r.events[i].k = n
                       /\ \E i \in 1..Len(r.results) : r.results[i][1] = n

\* a run cancelled during the first of two tool invocations has ended
\* after completing normally
C5_Witness ==
    \E s \in RunSlots :
        /\ CancelledInFlight(s)
        /\ run[s].cancelAt.ti = 1
        /\ run[s].tools = <<"mcp", "mcp">>
        /\ run[s].pc = "done"
        /\ run[s].nComplete = 1

\* C6: a run makes at most 10 model-endpoint calls, and a run that was
\* started and whose tool calls all return ends, whatever the model
\* replies and the tools return.
C6_AtMostTenModelCalls ==
    /\ [](\A s \in RunSlots : run[s].modelCalls <= MaxIterations)
    /\ \A s \in RunSlots :
            []<>(run[s].pc # "exec") =>
                ((run[s].pc # "idle") ~> (run[s].pc = "done"))

\* a run has ended after 10 model calls, each reply having requested tools
\* and every tool call of the last reply having succeeded
C6_Witness ==
    \E s \in RunSlots :
        /\ run[s].pc = "done"
        /\ run[s].modelCalls = MaxIterations
        /\ run[s].iteration = MaxIterations
        /\ run[s].results # <<>>
        /\ \A i \in 1..Len(run[s].results) : run[s].results[i][2] = "ok"
        /\ run[s].nComplete = 1

\* C7: a registered run id belongs to a runChat invocation that has
\* registered it and has not settled.
C7_RegisteredOnlyDuringRunChat ==
    \A id \in activeRuns :
        \E s \in RunSlots :
            /\ run[s].id = id
            /\ run[s].pc \notin {"idle", "done"}

\* a runChat invocation rejected because recording the outcome failed, and
\* its run id is not registered, while another run is
C7_Witness ==
    \E s \in RunSlots :
        /\ run[s].pc = "done"
        /\ run[s].id # 0
        /\ run[s].outcome = "rejected"
        /\ run[s].status = "running"
        /\ run[s].id \notin activeRuns
        /\ \E t \in RunSlots \ {s} : run[t].id \in activeRuns

\* C8: a cancelRun call returns whether its argument is registered and
\* never changes the registry; with an unregistered argument it changes no
\* run; with a registered one it aborts the signal of that run and changes
\* no other run.
C8_CancelRunTouchesOnlyItsRun ==
    [][nCancels' # nCancels =>
        LET id == lastCancel'.id
        IN  /\ activeRuns' = activeRuns
            /\ lastCancel'.ret = (id \in activeRuns)
            /\ \A s \in RunSlots :
                   (id \notin activeRuns \/ run[s].id # id) => run'[s] = run[s]
            /\ id \in activeRuns =>
                   \E s \in RunSlots :
                       /\ run[s].id = id
                       /\ run'[s].aborted
                       /\ run'[s].pc = run[s].pc]_vars

\* cancelRun was called with the id of a run that had ended and been
\* removed: it returned false, and the other run is still registered and
\* not aborted
C8_Witness ==
    /\ nCancels = 1
    /\ lastCancel = [id |-> 1, ret |-> FALSE]
    /\ run[1].pc = "done"
    /\ run[1].id = 1
    /\ ~run[1].aborted
    /\ activeRuns = {2}
    /\ ~run[2].aborted

-----------------------------------------------------------------------------
(* Claims about the connectivity test, discovery and tool execution.       *)

\* C11: when the subprocess writes a JSON-RPC envelope to stdout,
\* testStdioConnection returns; once its stdout handler has received the
\* envelope before the 5 s timer fired, the test has resolved with
\* success = true, and stays so whatever the subprocess writes to stderr,
\* however it exits and in whatever pieces the envelope arrived.
C11_InitializeResponseGivesSuccess ==
    /\ (op = "test" /\ IncludesJsonrpc(sent)) => ~Stranded
    /\ (op = "test" /\ IncludesJsonrpc(output) /\ timer # "fired")
            => (result.settled /\ result.success)

\* C12: discoverStdioTools never rejects; it resolves with the tool list
\* only from the stdout handler and with the empty list from every other
\* path (catch, 'error', 'close', the 10 s timer); and while it has not
\* resolved its timer is armed, so that it returns by the deadline.
C12_DiscoveryFailureGivesEmptyList ==
    op = "discover" =>
        /\ result.settled => result.value \in {"tools", "empty"}
        /\ (result.settled /\ result.via # "data") => result.value = "empty"
        /\ ~result.settled => timer = "armed"

\* the workspace has a server of that name
Configured(listing, name) == name \in ServerNames /\ listing[name] # "absent"

\* C13: an executeTool call that read the workspace's servers and found
\* none named X returns { success: false, error: 'MCP server "X" not
\* found' } with X the name it was called with, and has spawned no process
\* and issued no HTTP request.
C13_UnknownServerNotFound ==
    (tc.pc = "done" /\ tc.listed /\ ~Configured(tc.listing, tc.server)) =>
        /\ tc.result = NotFound(tc.server)
        /\ spawns = 0
        /\ fetches = <<>>

\* a call for a server name the workspace does not have, while it has a
\* stdio server and an HTTP server, returned not found
C13_Witness ==
    /\ tc.pc = "done"
    /\ tc.server = "s3"
    /\ tc.listing = [n \in ServerNames |-> IF n = "s1" THEN "stdio" ELSE "http"]
    /\ tc.result = NotFound("s3")
    /\ spawns = 0
    /\ fetches = <<>>

-----------------------------------------------------------------------------
(* Claims about the tool-call loop: failures, order, end of the loop.      *)

\* the invocations of the batch after the current one that will be executed
LaterInvocations(r) == {j \in (r.ti + 1)..Len(r.tools) : r.tools[j] = "mcp"}

\* the loop goes on from r to r2 as it would after a successful call: the
\* call's trace event is awaited; or the next invocation of the batch is
\* taken up; or, the batch being over, the assistant message and the
\* results are pushed to the conversation and the next model call is
\* made, unless the run is aborted or the iteration cap is reached, and
\* then the loop is left without an error
GoesOn(r, r2) ==
    IF r2.pc = "post" THEN r2.results = r.results \/ r.pc = "exec"
    ELSE IF ~r.aborted /\ LaterInvocations(r) # {}
    THEN /\ r2.pc \in {"pre", "exec"}
         /\ r2.ti \in LaterInvocations(r)
         /\ \A j \in LaterInvocations(r) : r2.ti <= j
    ELSE /\ r2.pushedLast
         /\ r2.convLen = r.convLen + 2
         /\ r2.results = IF r.pc = "exec"
                         THEN Append(r.results, <<r.ti, "err">>)
                         ELSE r.results
         /\ r2.cause = "none"
         /\ IF ~r.aborted /\ r.iteration + 1 < MaxIterations
            THEN r2.pc = "model" /\ r2.modelCalls = r.modelCalls + 1
            ELSE r2.pc \in {"done"} \cup SavePcs \cup CompletePcs

\* C14: when executeTool returns success = false, a tool_result carrying
\* the error text is sent to the sink and the result is in toolResults;
\* from there the loop goes on as after a success (a trace write may still
\* throw): remaining invocations are taken up in order, the batch is
\* pushed to the conversation, and the next model call is made unless the
\* run is aborted or the iteration cap is reached.
C14_FailedToolDoesNotEndRun ==
    [][\A s \in RunSlots :
        LET r == run[s]
            r2 == run'[s]
        IN  /\ (r.pc = "exec" /\ r2.results = Append(r.results, <<r.ti, "err">>))
                 => /\ \E i \in 1..Len(r2.events) :
                          r2.events[i] = [type |-> "tool_result", k |-> r.ti,
                                          content |-> "err"]
                    /\ GoesOn(r, r2)
            /\ (r.pc = "post" /\ r.results[Len(r.results)][2] = "err"
                  /\ r2.pc # "post")
                 => (GoesOn(r, r2) \/ r2.cause = "trace")]_vars

\* the first invocation of a batch failed, the second was executed, the
\* batch was pushed to the conversation and the second model call made
C14_Witness ==
    \E s \in RunSlots :
        /\ run[s].results = <<<<1, "err">>, <<2, "ok">>>>
        /\ run[s].pc = "model"
        /\ run[s].modelCalls = 2
        /\ run[s].pushedLast
        /\ run[s].convLen = 2

\* C15: once a model-endpoint call of a run has failed, the sink has
\* received exactly one 'error' message (carrying that failure) and no
\* 'complete' message, the run is never recorded as a success and, when
\* runChat has returned, is recorded with status 'error'; and from then on
\* the run makes no model call, executes no tool and sends the sink no
\* tool message.
C15_ModelFailureEndsRunWithError ==
    /\ [](\A s \in RunSlots :
            run[s].cause = "model" =>
                /\ run[s].pc \in {"done"} \cup CatchPcs
                /\ run[s].nError = 1
                /\ run[s].nComplete = 0
                /\ run[s].status # "success"
                /\ (run[s].pc = "done" /\ run[s].id # 0
                      /\ run[s].outcome = "resolved")
                     => run[s].status = "error")
    /\ [][\A s \in RunSlots :
            run[s].cause = "model" =>
                /\ run'[s].cause = "model"
                /\ run'[s].modelCalls = run[s].modelCalls
                /\ run'[s].dispatched = run[s].dispatched
                /\ run'[s].events = run[s].events]_vars

\* the second model call of a run failed, after a batch of tools; runChat
\* has returned and the run is recorded with status 'error'
C15_Witness ==
    \E s \in RunSlots :
        /\ run[s].cause = "model"
        /\ run[s].modelCalls = 2
        /\ run[s].results # <<>>
        /\ run[s].pc = "done"
        /\ run[s].outcome = "resolved"
        /\ run[s].status = "error"

-----------------------------------------------------------------------------
(* Claims about tool names *)

\* word occurs in s at position i, letter case ignored
OccursAt(s, i, word) ==
    /\ i + Len(word) - 1 <= Len(s)
    /\ \A j \in 1..Len(word) : LowerChar(s[i + j - 1]) = word[j]

\* word occurs in s, letter case ignored
ContainsIgnoringCase(s, word) == \E i \in 1..Len(s) : OccursAt(s, i, word)

\* C16: a classified tool is high-risk exactly when the text
\* 'name description' contains one of the fixed keywords, letter case
\* ignored; a name containing delete, bash or sql in any letter case is
\* high-risk; list_files with description 'list files' is not.
C16_HighRiskExactlyOnKeyword ==
    rk.done =>
        /\ rk.isHighRisk <=>
              \E pattern \in HIGH_RISK_PATTERNS :
                  ContainsIgnoringCase(rk.name \o <<" ">> \o rk.description,
                                       pattern)
        /\ (\E word \in {<<"d", "e", "l", "e", "t", "e">>,
                         <<"b", "a", "s", "h">>,
                         <<"s", "q", "l">>} :
                ContainsIgnoringCase(rk.name, word)) => rk.isHighRisk
        /\ (rk.name = <<"l", "i", "s", "t", "_", "f", "i", "l", "e", "s">>
              /\ rk.description = <<"l", "i", "s", "t", " ", "f", "i", "l", "e", "s">>)
             => ~rk.isHighRisk

\* a tool whose name has DELETE in capitals and whose description is
\* empty was classified high-risk
C16_Witness ==
    /\ rk.done
    /\ rk.name = <<"g", "e", "t", "D", "E", "L", "E", "T", "E">>
    /\ rk.description = <<>>
    /\ rk.isHighRisk

\* C17: the full name built from a server name and a tool name is
\* recognised by the loop as an MCP tool and resolved to the same server
\* name and the same tool name.
C17_FullNameRoundTrip ==
    fn.done =>
        /\ fn.resolved.mcp
        /\ fn.resolved.serverName = fn.serverName
        /\ fn.resolved.toolName = fn.toolName

-----------------------------------------------------------------------------

(* Claims about executeHttpTool                                            *)

\* the tools/call request was answered by a response (fetch did not throw)
Responded ==
    /\ tc.pc \in {"body", "done"}
    /\ Len(fetches) = 2
    /\ ~tc.resp.throws

\* the body that was read carries an envelope with a truthy result
CarriesResult ==
    \E i \in 1..Len(tc.body) :
        tc.body[i] \in Envelopes /\ tc.body[i].result = "truthy"

\* the body that was read carries an envelope with an error
CarriesError ==
    \E i \in 1..Len(tc.body) :
        tc.body[i] \in Envelopes /\ tc.body[i].error # "absent"

\* C18: a call over HTTP that has returned has returned an outcome (it
\* never rejects); the outcome is a success only when the tools/call
\* response was ok and its body carried an envelope with a result; a
\* response that is not ok, or an ok response whose envelope carries an
\* error, gives a failure with a non-empty error string; an exception of
\* either fetch gives a failure.
C18_HttpOutcome ==
    (tc.pc = "done" /\ tc.op = "call" /\ tc.transport \in {"http", "sse"}) =>
        /\ tc.result.settled
        /\ tc.result.success => (Responded /\ tc.resp.ok /\ CarriesResult)
        /\ (Responded /\ ~tc.resp.ok) =>
                (~tc.result.success /\ tc.result.error # "")
        /\ (Responded /\ tc.resp.ok /\ CarriesError) =>
                (~tc.result.success /\ tc.result.error # "")
        /\ (tc.init.throws \/ tc.resp.throws) => ~tc.result.success

-----------------------------------------------------------------------------

(* Claims about the order of the tool-call loop                            *)

\* the tool_call and tool_result messages the sink received since the
\* last model reply
ToolEvents(r) == SelectSeq(r.events, LAMBDA e : e.type # "chunk")

\* C19: within one iteration the requested invocations are handled one at
\* a time in the order of the reply: the sink's tool messages are
\* tool_call(1), tool_result(1), tool_call(2), tool_result(2), ...; the
\* k-th tool is executed between tool_call(k) and tool_result(k); the
\* results collected for the conversation are those of the tool_result
\* messages in that order, and they are appended to the conversation only
\* when every invocation of the reply has been handled (or the run was
\* cancelled).
C19_ToolsHandledInOrder ==
    \A s \in RunSlots :
        LET r == run[s]
            T == ToolEvents(r)
            n == Len(T)
        IN  /\ \A i \in 1..n :
                /\ T[i].k = (i + 1) \div 2
                /\ T[i].type = IF i % 2 = 1 THEN "tool_call" ELSE "tool_result"
            /\ n \div 2 <= r.dispatched /\ r.dispatched <= (n + 1) \div 2
            /\ r.pc = "pre" => (n % 2 = 1 /\ r.dispatched = (n - 1) \div 2)
            /\ r.pc = "exec" => (n % 2 = 1 /\ r.dispatched = (n + 1) \div 2)
            /\ Len(r.results) = n \div 2
            /\ \A i \in 1..Len(r.results) :
                    r.results[i] = <<i, T[2 * i].content>>
            /\ r.pushedLast => (n = 2 * Len(r.tools) \/ r.aborted)

\* the chunk messages the sink received since the last model reply
Chunks(r) == SelectSeq(r.events, LAMBDA e : e.type = "chunk")

\* the positions of the text blocks of a reply, in reply order
RECURSIVE TextPositions(_, _)
TextPositions(reply, i) ==
    IF i > Len(reply) THEN <<>>
    ELSE IF reply[i] \in TextKinds
         THEN <<i>> \o TextPositions(reply, i + 1)
    ELSE TextPositions(reply, i + 1)

\* the last reply requested no tool or gave the stop reason end_turn
EndReply(r) ==
    /\ r.stop # "none"
    /\ \/ \A i \in 1..Len(r.reply) : r.reply[i] \in TextKinds
       \/ r.stop = "end_turn"

\* C20: once a reply requests no tool or gives the stop reason end_turn,
\* the loop has ended without a failure of its own: the run is at the
\* steps after the loop, no tool of that reply is announced or executed,
\* no further model call is made, and a run that ends with no failure of
\* the later steps has told the sink 'complete' and is recorded as a
\* success.  The text blocks of every reply have been streamed as chunks,
\* one per block in reply order, before any tool of the reply is handled.
C20_LoopEndsOnFinalReply ==
    /\ [](\A s \in RunSlots :
            LET r == run[s]
            IN  /\ EndReply(r) =>
                    /\ r.pc \in {"done"} \cup SavePcs \cup CompletePcs
                                                      \cup CatchPcs
                    /\ r.cause \in {"none", "save", "record"}
                    /\ r.dispatched = 0
                    /\ ToolEvents(r) = <<>>
                    /\ (r.pc = "done" /\ r.cause = "none") =>
                            /\ r.nComplete = 1 /\ r.nError = 0
                            /\ r.outcome = "resolved"
                            /\ r.id # 0 => r.status = "success"
                /\ r.stop # "none" =>
                    /\ Len(Chunks(r)) = Len(TextPositions(r.reply, 1))
                    /\ \A j \in 1..Len(Chunks(r)) :
                            /\ Chunks(r)[j].k = TextPositions(r.reply, 1)[j]
                            /\ r.events[j] = Chunks(r)[j])
    /\ [][\A s \in RunSlots :
            EndReply(run[s]) => run'[s].modelCalls = run[s].modelCalls]_vars

\* a reply of a text block and a tool request with the stop reason end_turn
\* has ended the loop, and the run has completed
C20_Witness ==
    \E s \in RunSlots :
        /\ run[s].reply = <<"text", "mcp">>
        /\ run[s].stop = "end_turn"
        /\ run[s].modelCalls = 2
        /\ run[s].pc = "done"
        /\ run[s].nComplete = 1
        /\ Len(Chunks(run[s])) = 1

-----------------------------------------------------------------------------

(* Claims about the stdio transport: termination, precedence, framing      *)

\* C21: over the lifetime of one stdio transport instance proc.kill() is
\* called exactly once: never more than once, and once by the time the
\* subprocess has closed, whatever closed it.
C21_TerminationAttemptedOnce ==
    /\ killCalls <= 1
    /\ procState = "closed" => killCalls = 1

-----------------------------------------------------------------------------

(* Claims about the HTTP transport's two requests                          *)

\* the initialize response carried a session id (a header with an empty
\* value carries none)
CarriedSession(r) == r.session \notin {"null", ""}

\* C22: in discoverHttpTools and executeHttpTool the second POST (tools/list
\* or tools/call) is issued only once the initialize POST has completed
\* with a response; it carries the mcp-session-id the initialize response
\* returned exactly when that response was ok and carried one, and no
\* session header otherwise.
C22_SessionPropagated ==
    /\ Len(fetches) <= 2
    /\ tc.pc \in {"init", "dinit"} =>
            (Len(fetches) = 1 /\ fetches[1].method = "initialize")
    /\ Len(fetches) = 2 =>
        /\ tc.pc \notin {"idle", "list", "init", "dinit"}
        /\ ~tc.init.throws
        /\ fetches[1].method = "initialize"
        /\ fetches[2].method =
                IF tc.op = "discover" THEN "tools/list" ELSE "tools/call"
        /\ fetches[2].session =
                IF tc.init.ok /\ CarriedSession(tc.init) THEN tc.init.session
                ELSE "null"
    /\ (tc.pc \in {"call", "dlist", "body", "dbody"}) => Len(fetches) = 2

\* the complete lines of everything the subprocess wrote to stdout
SentLines == Front(Split(sent))

\* the line is the response the operation waits for: id 2 with a tool
\* list (discoverStdioTools), id 2 with a result or an error
\* (executeStdioTool)
ResponseLine(o, line) ==
    LET msg == JsonParse(line)
    IN  /\ Trim(line) # <<>>
        /\ msg.ok /\ msg.id = 2
        /\ IF o = "discover" THEN msg.result = "tools"
           ELSE Truthy(msg.result) \/ msg.error # "absent"

EmittedResponse == \E i \in 1..Len(SentLines) : ResponseLine(op, SentLines[i])

\* the outcome the first response line stands for, as the handler reads
\* it (a tool list is returned as decoded)
ResponseOutcome ==
    LET i == CHOOSE i \in 1..Len(SentLines) :
                /\ ResponseLine(op, SentLines[i])
                /\ \A j \in 1..(i - 1) : ~ResponseLine(op, SentLines[j])
        msg == JsonParse(SentLines[i])
    IN  IF op = "discover" THEN Outcome(TRUE, result.value, "data")
        ELSE IF Truthy(msg.result) THEN Outcome(TRUE, "result", "data")
        ELSE Outcome(FALSE, "rpcerror", "data")

\* C23: when the subprocess has written the response the operation waits
\* for and has exited and closed, before the deadline, the operation's
\* outcome is the one of the parsed response (the tool list, the tool
\* result or error; for testStdioConnection the success of the stdout
\* handler) and not the one of the close handler, however the stdout data
\* was cut into events.
C23_ResponseBeforeExit ==
    (procState = "closed" /\ timer # "fired") =>
        /\ (op \in {"discover", "exec"} /\ EmittedResponse) =>
                /\ result = ResponseOutcome
                /\ op = "discover" => result.value \in {"tools", "toolsR"}
        /\ (op = "test" /\ IncludesJsonrpc(sent)) =>
                result = Outcome(TRUE, "none", "data")

\* discovery: the subprocess wrote a blank line, the tool list and noise,
\* exited with a code that is not zero and closed, and the list was
\* returned
C23_Witness ==
    /\ op = "discover"
    /\ procState = "closed"
    /\ exitCode = "nonzero"
    /\ sent = <<SP, NL, H, "b2t", NL, X>>
    /\ result = Outcome(TRUE, "tools", "data")

\* the stdout bytes the data events have delivered so far
Delivered == SubSeq(sent, 1, Len(sent) - Len(pipe))

\* the handler's state when the promise executor has run
HStart ==
    [writes |-> <<[method |-> "initialize", id |-> 1]>>, messageId |-> 1,
     timer |-> "armed", killCalls |-> 0, killed |-> FALSE,
     result |-> Pending, seenInit |-> FALSE]

\* what the handler of operation o makes of the given complete lines
Handled(o, lines) ==
    IF o = "discover" THEN DiscoverLines(HStart, lines)
    ELSE ExecLines(HStart, lines)

\* the lines without the blank ones and the ones that are not valid JSON
WithoutNoise(lines) ==
    SelectSeq(lines, LAMBDA l : Trim(l) # <<>> /\ JsonParse(l).ok)

\* C24: the requests written to the subprocess and the outcome of stdio
\* discovery and tool execution depend only on the complete lines of the
\* bytes delivered, each parsed once: they are what one data event
\* carrying all those bytes would give, with or without the blank lines
\* and the lines that are not valid JSON, however the bytes were cut into
\* data events (as long as the deadline has not fired).
C24_FramingInsensitive ==
    (op \in {"discover", "exec"} /\ procState # "null" /\ timer # "fired") =>
        LET lines == Front(Split(ToString(Delivered)))
            ref == Handled(op, lines)
        IN  /\ Handled(op, WithoutNoise(lines)) = ref
            /\ writes = ref.writes
            /\ killCalls = ref.killCalls
            /\ ref.result.settled => result = ref.result
            /\ ~ref.result.settled => result.via # "data"

-----------------------------------------------------------------------------

(* Claims about how a run ends                                             *)

\* C25: a run whose loop found the abort signal set does not end as a
\* normal success: the sink is not sent 'complete' and the run is not
\* recorded with status 'success'.
C25_CancelledRunIsNotSuccess ==
    \A s \in RunSlots :
        run[s].observed =>
            /\ run[s].nComplete = 0
            /\ run[s].status # "success"

\* C26: a conversation sent to the model endpoint is well paired: when the
\* loop has appended an assistant message and the user message of results
\* and calls the model again, every tool invocation of that assistant
\* message has exactly one result in the user message.
C26_ConversationWellPaired ==
    \A s \in RunSlots :
        (run[s].pc = "model" /\ run[s].pushedLast) =>
            \A k \in 1..Len(run[s].tools) :
                Cardinality({i \in 1..Len(run[s].results) :
                                run[s].results[i][1] = k}) = 1

-----------------------------------------------------------------------------

(* Claims about the servers tools are executed on                          *)

\* C27: executeTool is invoked, and the call passed to a transport, only
\* for a server whose configuration is enabled and which is listed in the
\* profile's enabledMcpServers.
C27_OnlyEnabledServersExecuted ==
    dp.called =>
        /\ dp.serverName \in DispatchServers
        /\ dp.configs[dp.serverName].enabled
        /\ dp.serverName \in dp.enabledServerNames

-----------------------------------------------------------------------------

(* Claims about overlapping syncTools calls                                *)

\* C28: once two syncTools calls for the same (workspace, server), with
\* the lists T1 and T2, have both completed, the rows stored for that
\* server are those of T1 or those of T2, one row per tool.
C28_OverlappingSyncsLeaveOneList ==
    (/\ \A r \in Slots : req[r].pc = "done" /\ req[r].synced
     /\ req[1].key = req[2].key) =>
        \/ store[req[1].key] = BagOf(req[1].tools)
        \/ store[req[1].key] = BagOf(req[2].tools)

\* ---------------------------------------------------------------------
\* Claims about the messages a run sends to its sink
\* ---------------------------------------------------------------------

\* runChat entered its try block: executeAgentQuery was called
ReachedAgentQuery(r) ==
    /\ r.pc \notin {"idle", "start"}
    /\ ~(r.pc = "done" /\ r.cause = "none" /\ r.nComplete = 0)

\* the 'complete' and 'error' messages the sink has received
Terminals(r) == r.nComplete + r.nError

\* C29: a runChat invocation that reaches the agent query sends its sink
\* exactly one terminal message, 'complete' or 'error' and never both
\* (never two at any time, one once runChat has settled), and no chunk,
\* tool_call or tool_result message after the terminal one.
C29_OneTerminalMessage ==
    [][\A s \in RunSlots :
        /\ Terminals(run'[s]) <= 1
        /\ (run'[s].pc = "done" /\ ReachedAgentQuery(run'[s])) =>
                Terminals(run'[s]) = 1
        /\ Terminals(run[s]) >= 1 => run'[s].events = run[s].events]_vars

\* ---------------------------------------------------------------------
\* Claims about the requests written to the subprocess
\* ---------------------------------------------------------------------

\* the positions in writes of the follow-up requests
FollowUps == {i \in 1..Len(writes) : writes[i].method # "initialize"}

\* C30: one stdio discoverTools or callTool operation writes at most one
\* follow-up request (tools/list or tools/call) to the subprocess, and it
\* carries request id 2, also when the server sends its id-1 initialize
\* response more than once.
C30_OneFollowUpWithId2 ==
    op \in {"discover", "exec"} =>
        /\ Cardinality(FollowUps) <= 1
        /\ \A i \in FollowUps : writes[i].id = 2

====
